---- MODULE Spec2Model ----
(***************************************************************************)
(* Bling data collector: OAuth token lifecycle (src/src/auth/oauth.py),    *)
(* credential store (src/src/db/repository.py), rate-limited client        *)
(* (src/src/api/bling_client.py) and the extraction pipeline               *)
(* (src/src/etl/pipeline.py).                                              *)
(*                                                                         *)
(* Time in the token part is counted in minutes, time in the client part   *)
(* in milliseconds of the monotonic clock.                                 *)
(***************************************************************************)
EXTENDS Integers, Sequences, FiniteSets, TLC

(***************************************************************************)
(* Bounds of the model.                                                    *)
(***************************************************************************)
MaxTok == 3        \* access/refresh pairs the authorization server issues
MaxNow == 15       \* wall clock (minutes) up to which time is let pass
MaxRuns == 2       \* rows of etl_controle
MaxCalls == 2      \* calls made through one BlingClient
MaxTicks == 2      \* times the monotonic clock advances by itself
MaxItens == 2      \* line items in one invoice detail
MaxParcelas == 2   \* instalments in one invoice detail
MaxExtractions == 2  \* extractions of one invoice
MaxStartOffset == 70 \* start dates tried, in days after FirstStart
MaxSpanDays == 45    \* longest range handed to _gerar_periodos_mensais, in days
MaxNfes == 2         \* invoice details handed to the counterparty/product pass
MaxBad == 1          \* entities of one run whose processing fails
MaxDaysAgo == 3      \* age in days of the oldest run record of a history

(***************************************************************************)
(* Program constants.                                                      *)
(***************************************************************************)
RefreshThresholdMin == 10      \* timedelta(minutes=10)
DefaultExpiresInMin == 360     \* data.get("expires_in", 21600) seconds
ApiRateLimitDelay == 350       \* API_RATE_LIMIT_DELAY: float = 0.35 (seconds)
StopAfterAttempt == 5          \* stop=stop_after_attempt(5)
WaitMultiplier == 1000         \* wait_exponential(multiplier=1 (second), ...)
WaitMin == 2000                \* wait_exponential(..., min=2 (seconds), ...)
WaitMax == 30000               \* wait_exponential(..., max=30 (seconds))
CHECKPOINT_INTERVAL == 50      \* CHECKPOINT_INTERVAL = 50
EXTRACTION_DAYS_BACK == 1      \* EXTRACTION_DAYS_BACK: int = 1

Procs == {"p1", "p2"}          \* request handlers, each with its own Session

TickSteps == {5}               \* minutes the wall clock advances in one step
\* expires_in values (minutes) the token endpoint answers; 0 = field absent
ExpiresInAnswers == {0, 15}

VARIABLES
  \* ---- credential store and authorization server
  oauth_tokens,   \* committed rows of table oauth_tokens
  srvValid,       \* refresh tokens the authorization server accepts
  issued,         \* number of pairs the authorization server has issued
  now,            \* wall clock, minutes
  \* ---- one handler per process
  pc,             \* position of each handler
  op,             \* the invocation each handler is serving
  token,          \* the row read by get_oauth_token (local `token`)
  resp,           \* response.json() of the token endpoint (local `data`)
  client_token,   \* access token the BlingClient of the run was built with
  run_id,         \* id of the etl_controle row of the run
  result,         \* what refresh_access_token handed to the running invocation
  etl_controle,   \* committed rows of table etl_controle
  \* ---- history
  persisted,      \* access tokens that have been committed to the store
  apiUsed,        \* access tokens API calls have been made with
  needsReauth,    \* a pair was exchanged at the server and never persisted
  need,           \* lifetime left when the last invocation needed a token
  rfOutcome,      \* how the last token exchange ended
  rfResult,       \* what the last refresh_access_token returned or raised
  lastResult,     \* what the last finished invocation returned or raised
  \* ---- BlingClient: one client, one call at a time
  clock,              \* time.monotonic(), milliseconds
  last_request_time,  \* self._last_request_time
  cpc,                \* position inside _request and its retry loop
  attempt_number,     \* tenacity's retry_state.attempt_number
  statuses,           \* status codes answered to the attempts of the call
  sent,               \* HTTP requests sent for the call
  callResult,         \* what the call returned or raised
  calls,              \* calls made through the client
  ticks,              \* steps of time passing by itself
  gates,              \* requests that passed _wait_rate_limit
  sends,              \* requests handed to httpx
  prevGate,           \* when the request before the last passed the gate
  sendTime,           \* when the last request was handed to httpx
  lastWait,           \* tenacity's sleeps of the call, in order
  \* ---- listar_todas_nfes
  page_size,          \* self._page_size
  nServed,            \* records the API holds for the query
  pgPc,               \* position of the listing
  pagina,             \* local `pagina`
  todas,              \* local `todas`
  requests,           \* pages asked of listar_nfes, in order
  sizes,              \* len(registros) of the pages answered, in order
  \* ---- the invoice tables, as the Session's transaction sees them
  nfe_cabecalho,      \* rows of table nfe_cabecalho
  nfe_itens,          \* rows of table nfe_itens
  nfe_pagamentos,     \* rows of table nfe_pagamentos
  committed,          \* the three tables as last committed
  tx_failed,          \* a statement failed: the transaction is aborted
  item_seq,           \* sequence behind nfe_itens.id
  pag_seq,            \* sequence behind nfe_pagamentos.id
  upstream,           \* the detail payload the API answers for each invoice
  extracted,          \* times _salvar_nfe ran for each invoice
  after_first,        \* items and payments of each invoice after its first run
  lastOp,             \* the invoice the last step ran _salvar_nfe for, or 0
  mgResult,           \* how the last _salvar_nfe ended
  \* ---- _gerar_periodos_mensais
  data_inicio,        \* argument data_inicio, "YYYY-MM-DD" as <<Y, M, D>>
  data_fim,           \* argument data_fim
  periodos,           \* the list returned
  gpDone,             \* the function has returned
  \* ---- _extrair_contatos and _extrair_produtos
  nfes,               \* argument nfes: the details collected by the run
  contatos,           \* ids of the rows of table contatos
  produtos,           \* rows of table produtos
  enPc,               \* position of the pass
  novos,              \* local `novos`, what is left of it to iterate
  atStart,            \* what the two tables held when each pass started
  fetched,            \* lookups asked of the API, in order
  stats,              \* self.stats
  falhos,             \* ids and codes whose lookup gave nothing
  \* ---- Pipeline.run and Pipeline.run_full, one invocation
  today,              \* now.date(), as a day ordinal
  args,               \* the invocation: modo, data_inicio, data_fim
  tamanhos,           \* len(resumos) of the listing of each period
  janela,             \* data_inicio and data_fim after step 1
  rnPc,               \* position of the invocation
  rn_id,              \* local run_id
  run_periodos,       \* the periods whose invoices are extracted, in order
  pidx,               \* index of the period being extracted
  ri,                 \* summaries of the current listing already handled
  vistos,             \* summaries handled since the run began
  stats_nfes,         \* self.stats["nfes"]
  store,              \* what the Session's transaction has written
  store_committed,    \* what has been committed
  aborted,            \* a statement failed: the transaction is aborted
  excecao,            \* type of the exception that reached the except clause
  checkpointed,       \* invoices that were stored when a checkpoint committed
  ultimo,             \* the summary handled last and how that ended
  falha,              \* the first run-level failure of the invocation
  depois,             \* summaries handled after that failure
  bad,                \* entities whose processing failed
  abortou,            \* the except clause of the run has run
  passos,             \* the steps of the invocation, in the order they began
  nfes_detalhadas,    \* nfes_detalhadas of the _extrair_nfes in progress
  todas_nfes          \* run(): nfes; run_full(): todas_nfes

tokVars == <<oauth_tokens, srvValid, issued, now, pc, op, token, resp,
             client_token, run_id, result, etl_controle, persisted, apiUsed,
             needsReauth, need, rfOutcome, rfResult, lastResult>>

cliVars == <<clock, last_request_time, cpc, attempt_number, statuses, sent,
             callResult, calls, ticks, gates, sends, prevGate, sendTime,
             lastWait>>

pgVars == <<page_size, nServed, pgPc, pagina, todas, requests, sizes>>

mgVars == <<nfe_cabecalho, nfe_itens, nfe_pagamentos, committed, tx_failed,
            item_seq, pag_seq, upstream, extracted, after_first, lastOp,
            mgResult>>

gpVars == <<data_inicio, data_fim, periodos, gpDone>>

enVars == <<nfes, contatos, produtos, enPc, novos, atStart, fetched, stats,
           falhos>>

rnVars == <<today, args, tamanhos, janela, rnPc, rn_id, run_periodos, pidx, ri,
            vistos, stats_nfes, store, store_committed, aborted, excecao,
            checkpointed, ultimo, falha, depois, bad, abortou, passos,
            nfes_detalhadas, todas_nfes>>

\* The token part without the run records.
tokRest == <<oauth_tokens, srvValid, issued, now, pc, op, token, resp,
             client_token, run_id, result, persisted, apiUsed, needsReauth,
             need, rfOutcome, rfResult, lastResult>>

\* The parts of the pipeline above the tables.
extVars == <<gpVars, enVars, rnVars>>

\* Everything but the token part, which the token part leaves alone.
offTok == <<cliVars, pgVars, mgVars, extVars>>
offCli == <<tokVars, pgVars, mgVars, extVars>>
offPg == <<tokVars, cliVars, mgVars, extVars>>
offMg == <<tokVars, cliVars, pgVars, extVars>>
offGp == <<tokVars, cliVars, pgVars, mgVars, enVars, rnVars>>
offEn == <<tokVars, cliVars, pgVars, mgVars, gpVars, rnVars>>
\* What a run leaves alone; it writes to etl_controle.
offRn == <<tokRest, cliVars, pgVars, mgVars, gpVars, enVars>>

vars == <<tokVars, cliVars, pgVars, mgVars, extVars>>

----------------------------------------------------------------------------
(***************************************************************************)
(* Table oauth_tokens and its repository functions.                        *)
(***************************************************************************)

NoToken == [id |-> 0, access_token |-> 0, refresh_token |-> 0, expires_at |-> 0]

\* A read that answers an empty credential when the table has no row.
get_oauth_token_blank ==
  IF oauth_tokens = {}
    THEN [id |-> 1, access_token |-> 0, refresh_token |-> 0, expires_at |-> 0]
    ELSE CHOOSE t \in oauth_tokens : TRUE

\* get_oauth_token: db.scalars(select(OAuthToken)).first()
get_oauth_token ==
  IF oauth_tokens = {} THEN NoToken ELSE CHOOSE t \in oauth_tokens : TRUE

\* A save that inserts a fresh row instead of replacing row id=1.
save_oauth_token_insert(access_token, refresh_token, expires_in) ==
  oauth_tokens \cup
    {[id |-> Cardinality(oauth_tokens) + 1, access_token |-> access_token,
      refresh_token |-> refresh_token, expires_at |-> now + expires_in]}

\* A save that executes nothing and commits nothing.
save_oauth_token_skipped(access_token, refresh_token, expires_in) ==
  oauth_tokens

\* A save whose ON CONFLICT clause leaves refresh_token out of set_.
save_oauth_token_keeps_refresh(access_token, refresh_token, expires_in) ==
  IF \E t \in oauth_tokens : t.id = 1
    THEN {t \in oauth_tokens : t.id # 1} \cup
           {[id |-> 1, access_token |-> access_token,
             refresh_token |-> t.refresh_token,
             expires_at |-> now + expires_in] : t \in {u \in oauth_tokens : u.id = 1}}
    ELSE oauth_tokens \cup
           {[id |-> 1, access_token |-> access_token,
             refresh_token |-> refresh_token, expires_at |-> now + expires_in]}

\* save_oauth_token: INSERT id=1 ... ON CONFLICT (id) DO UPDATE; commit
save_oauth_token(access_token, refresh_token, expires_in) ==
  {t \in oauth_tokens : t.id # 1} \cup
    {[id |-> 1, access_token |-> access_token,
      refresh_token |-> refresh_token, expires_at |-> now + expires_in]}

\* data.get("expires_in", 21600)
expires_in_of(data) ==
  IF data.expires_in = 0 THEN DefaultExpiresInMin ELSE data.expires_in

NoResp == [access_token |-> 0, refresh_token |-> 0, expires_in |-> 0]

Ok(v) == [kind |-> "return", type |-> "str", msg |-> "", value |-> v]
Raise(t, m) == [kind |-> "raise", type |-> t, msg |-> m, value |-> 0]
NoResult == [kind |-> "none", type |-> "", msg |-> "", value |-> 0]

NoNeed == [by |-> "", remaining |-> 0, known |-> FALSE, refreshed |-> FALSE]

Set(f, p, v) == [f EXCEPT ![p] = v]

OneAtATime(p) == \A q \in Procs \ {p} : pc[q] = "idle"

\* The pair the authorization server issues next, with the lifetime it states.
Issue(n, e) == [access_token |-> n, refresh_token |-> n, expires_in |-> e]

\* What the stores of history record after the table became `tab`.
Persist(tab) == persisted \cup {t.access_token : t \in tab}

----------------------------------------------------------------------------
(***************************************************************************)
(* Leaving an invocation, and leaving refresh_access_token towards its     *)
(* caller.                                                                 *)
(***************************************************************************)

Finish(p, res) ==
  /\ pc' = Set(pc, p, "idle")
  /\ op' = Set(op, p, "none")
  /\ result' = Set(result, p, NoResult)
  /\ lastResult' = res
  /\ token' = Set(token, p, NoToken)
  /\ resp' = Set(resp, p, NoResp)
  /\ client_token' = Set(client_token, p, 0)
  /\ run_id' = Set(run_id, p, 0)

\* refresh_access_token returns or raises `res`: into Pipeline.run's try
\* block when the run called it, else out of the invocation.
AfterRefresh(p, res) ==
  /\ rfResult' = res
  /\ IF op[p] = "run"
    THEN /\ pc' = Set(pc, p, IF res.kind = "return" THEN "run_extract"
                                                     ELSE "run_except")
         /\ client_token' = Set(client_token, p, res.value)
         /\ result' = Set(result, p, res)
         /\ token' = Set(token, p, NoToken)
         /\ resp' = Set(resp, p, NoResp)
         /\ UNCHANGED <<op, run_id, lastResult>>
    ELSE Finish(p, res)

----------------------------------------------------------------------------
(***************************************************************************)
(* exchange_authorization_code                                             *)
(***************************************************************************)

StartAuth(p) ==
  /\ UNCHANGED offTok
  /\ pc[p] = "idle" /\ OneAtATime(p) /\ issued < MaxTok
  /\ pc' = Set(pc, p, "auth_post")
  /\ op' = Set(op, p, "auth")
  /\ lastResult' = NoResult
  /\ need' = NoNeed
  /\ rfOutcome' = "none"
  /\ rfResult' = NoResult
  /\ UNCHANGED <<oauth_tokens, srvValid, issued, now, token, resp, client_token,
                 run_id, result, etl_controle, persisted, apiUsed, needsReauth>>

\* httpx.post(grant_type=authorization_code); raise_for_status()
AuthPost(p) ==
  /\ UNCHANGED offTok
  /\ pc[p] = "auth_post"
  /\ \/ \E e \in ExpiresInAnswers :          \* the code is good: 200
          /\ issued' = issued + 1
          /\ srvValid' = srvValid \cup {issued + 1}
          /\ resp' = Set(resp, p, Issue(issued + 1, e))
          /\ pc' = Set(pc, p, "auth_save")
          /\ UNCHANGED <<op, result, token, client_token, run_id, lastResult>>
     \/ /\ Finish(p, Raise("HTTPStatusError", "400"))   \* the code is bad
        /\ UNCHANGED <<issued, srvValid>>
  /\ UNCHANGED <<oauth_tokens, now, etl_controle, persisted, apiUsed,
                 needsReauth, need, rfOutcome, rfResult>>

\* save_oauth_token(...); return data
AuthSave(p) ==
  /\ UNCHANGED offTok
  /\ pc[p] = "auth_save"
  /\ oauth_tokens' = save_oauth_token(resp[p].access_token,
                                      resp[p].refresh_token,
                                      expires_in_of(resp[p]))
  /\ persisted' = Persist(oauth_tokens')
  /\ needsReauth' = FALSE
  /\ Finish(p, Ok(resp[p].access_token))
  /\ UNCHANGED <<srvValid, issued, now, etl_controle, apiUsed, need, rfOutcome,
                 rfResult>>

----------------------------------------------------------------------------
(***************************************************************************)
(* refresh_access_token                                                    *)
(***************************************************************************)

StartRefresh(p) ==
  /\ UNCHANGED offTok
  /\ pc[p] = "idle" /\ OneAtATime(p) /\ issued < MaxTok
  /\ pc' = Set(pc, p, "rf_read")
  /\ op' = Set(op, p, "refresh")
  /\ lastResult' = NoResult
  /\ need' = NoNeed
  /\ rfOutcome' = "none"
  /\ rfResult' = NoResult
  /\ UNCHANGED <<oauth_tokens, srvValid, issued, now, token, resp, client_token,
                 run_id, result, etl_controle, persisted, apiUsed, needsReauth>>

\* token = get_oauth_token(db); if not token: raise RuntimeError
RefreshRead(p) ==
  /\ UNCHANGED offTok
  /\ pc[p] = "rf_read"
  /\ LET t == get_oauth_token IN
       /\ need' = IF op[p] = "run"
                    THEN [by |-> "run", remaining |-> t.expires_at - now,
                          known |-> t # NoToken, refreshed |-> FALSE]
                    ELSE need
       /\ IF t = NoToken
            THEN AfterRefresh(p, Raise("RuntimeError", "no_token"))
            ELSE /\ token' = Set(token, p, t)
                 /\ pc' = Set(pc, p, "rf_post")
                 /\ UNCHANGED <<op, resp, client_token, run_id, result, lastResult,
                                rfResult>>
  /\ UNCHANGED <<oauth_tokens, srvValid, issued, now, etl_controle, persisted,
                 apiUsed, needsReauth, rfOutcome>>

\* An error handler that swallows the failure and answers the stored token.
refresh_error_swallowed(status, body_error) == Ok(0)

\* An error handler without the test for invalid_grant.
refresh_error_plain(status, body_error) ==
  Raise("HTTPStatusError", ToString(status))

\* An error handler that goes on with the access token that was read.
refresh_error_keeps_token(status, body_error) == Ok(1)

\* except httpx.HTTPStatusError: 400 + invalid_grant -> RuntimeError, else
\* the HTTPStatusError is raised again; e.response.json() raises on a 400
\* whose body is not JSON
refresh_error(status, body_error) ==
  IF status = 400 /\ body_error = "not_json"
    THEN Raise("JSONDecodeError", ToString(status))
    ELSE IF status = 400 /\ body_error = "invalid_grant"
      THEN Raise("RuntimeError", "reauth_required")
      ELSE Raise("HTTPStatusError", ToString(status))

\* Answers of the token endpoint that do not depend on the refresh token.
TransientAnswers == {<<400, "invalid_client">>, <<400, "not_json">>, <<500, "">>}

\* httpx.post(grant_type=refresh_token, refresh_token=token.refresh_token);
\* raise_for_status(); the except clause
RefreshPost(p) ==
  /\ UNCHANGED offTok
  /\ pc[p] = "rf_post"
  /\ need' = [need EXCEPT !.refreshed = TRUE]
  /\ \/ \E e \in ExpiresInAnswers :          \* 200: the server rotates the pair
          /\ token[p].refresh_token \in srvValid
          /\ issued' = issued + 1
          /\ srvValid' = (srvValid \ {token[p].refresh_token}) \cup {issued + 1}
          /\ resp' = Set(resp, p, Issue(issued + 1, e))
          /\ pc' = Set(pc, p, "rf_save")
          /\ rfOutcome' = "ok"
          /\ UNCHANGED <<op, result, token, client_token, run_id, lastResult,
                         rfResult>>
     \/ /\ token[p].refresh_token \notin srvValid     \* 400 invalid_grant
        /\ rfOutcome' = "invalid_grant"
        /\ AfterRefresh(p, refresh_error(400, "invalid_grant"))
        /\ UNCHANGED <<issued, srvValid>>
     \/ \E a \in TransientAnswers :                   \* another HTTP failure
          /\ rfOutcome' = "http_error"
          /\ AfterRefresh(p, refresh_error(a[1], a[2]))
          /\ UNCHANGED <<issued, srvValid>>
     \/ /\ rfOutcome' = "transport_error"  \* no answer
        /\ AfterRefresh(p, Raise("TransportError", ""))
        /\ UNCHANGED <<issued, srvValid>>
  /\ UNCHANGED <<oauth_tokens, now, etl_controle, persisted, apiUsed, needsReauth>>

\* A refresh that returns the new access token without saving the pair.
refresh_persist_skipped(data) == oauth_tokens

\* save_oauth_token(db, data["access_token"], data["refresh_token"],
\*                  data.get("expires_in", 21600))
refresh_persist(data) ==
  save_oauth_token(data.access_token, data.refresh_token, expires_in_of(data))

\* data = response.json(); save_oauth_token(...); return data["access_token"]
RefreshSave(p) ==
  /\ UNCHANGED offTok
  /\ pc[p] = "rf_save"
  /\ oauth_tokens' = refresh_persist(resp[p])
  /\ persisted' = Persist(oauth_tokens')
  /\ AfterRefresh(p, Ok(resp[p].access_token))
  /\ UNCHANGED <<srvValid, issued, now, etl_controle, apiUsed, needsReauth,
                 need, rfOutcome>>

\* save_oauth_token raises (db.execute or db.commit fails): nothing is stored
RefreshSaveFails(p) ==
  /\ UNCHANGED offTok
  /\ pc[p] = "rf_save"
  /\ needsReauth' = TRUE
  /\ rfOutcome' = "lost"
  /\ AfterRefresh(p, Raise("DBAPIError", ""))
  /\ UNCHANGED <<oauth_tokens, srvValid, issued, now, etl_controle, persisted,
                 apiUsed, need>>

\* The process dies after the exchange succeeded and before the save (or the
\* answer of the exchange never arrives): nothing is stored, the handler is gone.
CrashAfterExchange(p) ==
  /\ UNCHANGED offTok
  /\ pc[p] = "rf_save"
  /\ needsReauth' = TRUE
  /\ rfOutcome' = "lost"
  /\ Finish(p, [kind |-> "crash", type |-> "", msg |-> "", value |-> 0])
  /\ UNCHANGED <<oauth_tokens, srvValid, issued, now, etl_controle, persisted,
                 apiUsed, need, rfResult>>

----------------------------------------------------------------------------
(***************************************************************************)
(* get_valid_access_token                                                  *)
(***************************************************************************)

StartGetValid(p) ==
  /\ UNCHANGED offTok
  /\ pc[p] = "idle" /\ OneAtATime(p) /\ issued < MaxTok
  /\ pc' = Set(pc, p, "gv_read")
  /\ op' = Set(op, p, "get_valid")
  /\ lastResult' = NoResult
  /\ need' = NoNeed
  /\ rfOutcome' = "none"
  /\ rfResult' = NoResult
  /\ UNCHANGED <<oauth_tokens, srvValid, issued, now, token, resp, client_token,
                 run_id, result, etl_controle, persisted, apiUsed, needsReauth>>

\* A threshold test that also refreshes at exactly ten minutes.
must_refresh_inclusive(remaining) == remaining <= RefreshThresholdMin

\* if remaining < timedelta(minutes=10)
must_refresh(remaining) == remaining < RefreshThresholdMin

\* token = get_oauth_token(db); remaining = expires_at - now; the test
GetValidRead(p) ==
  /\ UNCHANGED offTok
  /\ pc[p] = "gv_read"
  /\ LET t == get_oauth_token
         remaining == t.expires_at - now IN
       IF t = NoToken
         THEN /\ Finish(p, Raise("RuntimeError", "no_token"))
              /\ need' = need
         ELSE /\ need' = [by |-> "get_valid", remaining |-> remaining,
                            known |-> TRUE, refreshed |-> FALSE]
              /\ IF must_refresh(remaining)
                   THEN /\ pc' = Set(pc, p, "rf_read")
                        /\ UNCHANGED <<op, result, token, resp, client_token, run_id, lastResult>>
                   ELSE Finish(p, Ok(t.access_token))
  /\ UNCHANGED <<oauth_tokens, srvValid, issued, now, etl_controle, persisted,
                 apiUsed, needsReauth, rfOutcome, rfResult>>

----------------------------------------------------------------------------
(***************************************************************************)
(* Pipeline.run: the run record, the token refresh, the calls made with    *)
(* the token, the end of the run.                                          *)
(***************************************************************************)

\* now.date() of a wall clock in minutes, as a day number
MinutesPerDay == 1440
today_of(minutes) == minutes \div MinutesPerDay

\* A run record that is never stored.
create_etl_run_unsaved(data_referencia) == etl_controle

\* create_etl_run: add the row with status running, commit
create_etl_run(data_referencia) ==
  Append(etl_controle, [status |-> "running", erro |-> "",
                        data_referencia |-> data_referencia,
                        nfes_processadas |-> 0])

\* A finish that finds no row: `if not run: return`.
finish_etl_run_not_found(id, status, n_nfes, erro) == etl_controle

\* An UPDATE of the run records without the test on the id.
finish_etl_run_every_row(id, status, n_nfes, erro) ==
  [k \in 1..Len(etl_controle) |->
     [etl_controle[k] EXCEPT !.status = status, !.erro = erro,
                             !.nfes_processadas = n_nfes]]

\* finish_etl_run: set status (and the error message), commit
finish_etl_run(id, status, n_nfes, erro) ==
  [etl_controle EXCEPT ![id].status = status, ![id].erro = erro,
                       ![id].nfes_processadas = n_nfes]

\* run(): window, create_etl_run, then into the try block
RunCreate(p) ==
  /\ UNCHANGED offTok
  /\ pc[p] = "idle" /\ OneAtATime(p) /\ issued < MaxTok
  /\ Len(etl_controle) < MaxRuns
  /\ etl_controle' = create_etl_run(today_of(now))
  /\ run_id' = Set(run_id, p, Len(etl_controle) + 1)
  /\ pc' = Set(pc, p, "rf_read")
  /\ op' = Set(op, p, "run")
  /\ lastResult' = NoResult
  /\ need' = NoNeed
  /\ rfOutcome' = "none"
  /\ rfResult' = NoResult
  /\ UNCHANGED <<oauth_tokens, srvValid, issued, now, token, resp, client_token,
                 result, persisted, apiUsed, needsReauth>>

\* with BlingClient(access_token) as client: the three extraction stages,
\* every request of which carries "Authorization: Bearer <access_token>"
RunExtract(p) ==
  /\ UNCHANGED offTok
  /\ pc[p] = "run_extract"
  /\ apiUsed' = apiUsed \cup {client_token[p]}
  /\ \/ /\ pc' = Set(pc, p, "run_finish")
        /\ result' = result
     \/ /\ pc' = Set(pc, p, "run_except")
        /\ result' = Set(result, p, Raise("Exception", "extract"))
  /\ UNCHANGED <<oauth_tokens, srvValid, issued, now, op, token, resp,
                 client_token, run_id, etl_controle, persisted, needsReauth,
                 need, rfOutcome, rfResult, lastResult>>

\* self.db.commit(); finish_etl_run(status="success"); return
RunFinish(p) ==
  /\ UNCHANGED offTok
  /\ pc[p] = "run_finish"
  /\ etl_controle' = finish_etl_run(run_id[p], "success", 0, "")
  /\ Finish(p, [kind |-> "return", type |-> "dict", msg |-> "success", value |-> 0])
  /\ UNCHANGED <<oauth_tokens, srvValid, issued, now, persisted, apiUsed,
                 needsReauth, need, rfOutcome, rfResult>>

\* except Exception as e: rollback; finish_etl_run(status="error"); return
RunExcept(p) ==
  /\ UNCHANGED offTok
  /\ pc[p] = "run_except"
  /\ etl_controle' = finish_etl_run(run_id[p], "error", 0, result[p].type)
  /\ Finish(p, [kind |-> "return", type |-> "dict", msg |-> "error", value |-> 0])
  /\ UNCHANGED <<oauth_tokens, srvValid, issued, now, persisted, apiUsed,
                 needsReauth, need, rfOutcome, rfResult>>

\* Time passes.
Tick ==
  /\ UNCHANGED offTok
  /\ \E d \in TickSteps : now + d <= MaxNow /\ now' = now + d
  /\ UNCHANGED <<oauth_tokens, srvValid, issued, pc, op, token, resp,
                 client_token, run_id, result, etl_controle, persisted, apiUsed,
                 needsReauth, need, rfOutcome, rfResult, lastResult>>

----------------------------------------------------------------------------
(***************************************************************************)
(* BlingClient._request under @retry, and BlingClient._wait_rate_limit.    *)
(* Status 0 stands for a request that httpx could not complete.            *)
(***************************************************************************)

Statuses == {0, 200, 302, 401, 429, 500}
ClockStarts == {0, 5000}        \* time.monotonic() when the client is built
ClockSteps == {100, 400}        \* time passing by itself, milliseconds
Overshoot == {0, 10}            \* how much longer than asked a sleep lasts

Max2(a, b) == IF a >= b THEN a ELSE b
Min2(a, b) == IF a <= b THEN a ELSE b

RECURSIVE Pow2(_)
Pow2(n) == IF n = 0 THEN 1 ELSE 2 * Pow2(n - 1)

\* A gate that never sleeps.
rate_limit_sleep_none(elapsed) == 0

\* if elapsed < self._delay: time.sleep(self._delay - elapsed)
rate_limit_sleep(elapsed) ==
  IF elapsed < ApiRateLimitDelay THEN ApiRateLimitDelay - elapsed ELSE 0

\* A retry predicate that retries whatever was raised.
should_retry_any(exc) == exc.kind = "raise"

\* retry=retry_if_exception_type(BlingRateLimitError)
should_retry(exc) == exc.kind = "raise" /\ exc.type = "BlingRateLimitError"

\* stop=stop_after_attempt(5)
should_stop(attempt) == attempt >= StopAfterAttempt

\* A wait whose exponent is the attempt number itself.
wait_exponential_from_attempt(attempt) ==
  Max2(WaitMin, Min2(WaitMultiplier * Pow2(attempt), WaitMax))

\* wait=wait_exponential(multiplier=1, min=2, max=30):
\* max(min, min(multiplier * 2 ** (attempt_number - 1), max))
wait_exponential(attempt) ==
  Max2(WaitMin, Min2(WaitMultiplier * Pow2(attempt - 1), WaitMax))

\* The body of _request after the response arrived.
request_outcome(st) ==
  IF st = 0 THEN Raise("TransportError", "")
  ELSE IF st = 429 THEN Raise("BlingRateLimitError", "429")
  ELSE IF st = 401 THEN Raise("RuntimeError", "token_invalid")
  ELSE IF st \div 100 # 2 THEN Raise("HTTPStatusError", ToString(st))
  ELSE [kind |-> "return", type |-> "dict", msg |-> "", value |-> 0]

\* @retry(...) without reraise=True: the attempts are used up
retry_exhausted(exc) == Raise("RetryError", exc.type)

CallDone == cpc = "idle" /\ callResult.kind # "none"

\* client.get(path, params) -> self._request("GET", path, params)
StartCall ==
  /\ UNCHANGED offCli
  /\ cpc = "idle" /\ calls < MaxCalls
  /\ cpc' = "gate"
  /\ calls' = calls + 1
  /\ attempt_number' = 1
  /\ statuses' = <<>>
  /\ sent' = 0
  /\ lastWait' = <<>>
  /\ callResult' = NoResult
  /\ UNCHANGED <<clock, last_request_time, ticks, gates, sends, prevGate, sendTime>>

\* self._wait_rate_limit()
WaitRateLimit ==
  /\ UNCHANGED offCli
  /\ cpc = "gate"
  /\ LET elapsed == clock - last_request_time
         s == rate_limit_sleep(elapsed) IN
       \E o \in Overshoot :
          /\ s = 0 => o = 0
          /\ clock' = clock + s + o
  /\ last_request_time' = clock'
  /\ prevGate' = last_request_time
  /\ gates' = gates + 1
  /\ cpc' = "send"
  /\ UNCHANGED <<attempt_number, statuses, sent, callResult, calls, ticks,
                 sends, sendTime, lastWait>>

\* response = self._client.request(...); the status tests; tenacity's
\* decision to return, to raise or to sleep
SendRequest ==
  /\ UNCHANGED offCli
  /\ cpc = "send"
  /\ sendTime' = clock
  /\ sends' = sends + 1
  /\ sent' = sent + 1
  /\ \E st \in Statuses :
       /\ statuses' = Append(statuses, st)
       /\ LET exc == request_outcome(st) IN
            IF should_retry(exc)
              THEN IF should_stop(attempt_number)
                     THEN /\ callResult' = retry_exhausted(exc)
                          /\ cpc' = "idle"
                     ELSE /\ callResult' = callResult
                          /\ cpc' = "backoff"
              ELSE /\ callResult' = exc
                   /\ cpc' = "idle"
  /\ UNCHANGED <<clock, last_request_time, attempt_number, calls, ticks, gates,
                 prevGate, lastWait>>

\* tenacity: self.sleep(self.wait(retry_state)); attempt_number += 1
Backoff ==
  /\ UNCHANGED offCli
  /\ cpc = "backoff"
  /\ LET w == wait_exponential(attempt_number) IN
       /\ clock' = clock + w
       /\ lastWait' = Append(lastWait, w)
  /\ attempt_number' = attempt_number + 1
  /\ cpc' = "gate"
  /\ UNCHANGED <<last_request_time, statuses, sent, callResult, calls, ticks,
                 gates, sends, prevGate, sendTime>>

\* Time passes while the thread is doing something else.
ClockTick ==
  /\ UNCHANGED offCli
  /\ ticks < MaxTicks
  /\ \E d \in ClockSteps : clock' = clock + d
  /\ ticks' = ticks + 1
  /\ UNCHANGED <<last_request_time, cpc, attempt_number, statuses, sent,
                 callResult, calls, gates, sends, prevGate, sendTime, lastWait>>

\* BlingClient.__init__
InitCli ==
  /\ clock \in ClockStarts
  /\ last_request_time = 0
  /\ cpc = "idle"
  /\ attempt_number = 0
  /\ statuses = <<>>
  /\ sent = 0
  /\ callResult = NoResult
  /\ calls = 0
  /\ ticks = 0
  /\ gates = 0
  /\ sends = 0
  /\ prevGate = 0
  /\ sendTime = 0
  /\ lastWait = <<>>

\* The client part when it is not under study.
ParkedCli ==
  /\ clock = 0
  /\ last_request_time = 0
  /\ cpc = "idle"
  /\ attempt_number = 0
  /\ statuses = <<>>
  /\ sent = 0
  /\ callResult = NoResult
  /\ calls = 0
  /\ ticks = 0
  /\ gates = 0
  /\ sends = 0
  /\ prevGate = 0
  /\ sendTime = 0
  /\ lastWait = <<>>

NextCli == StartCall \/ WaitRateLimit \/ SendRequest \/ Backoff \/ ClockTick

----------------------------------------------------------------------------
(***************************************************************************)
(* BlingClient.listar_todas_nfes over listar_nfes.  The API holds the      *)
(* records 1..nServed of the query and serves them `limite` to a page.     *)
(***************************************************************************)

PageSizes == {1, 2, 3, 100}     \* API_PAGE_SIZE: int = 100, and small ones
MaxFullPages == 2               \* full pages the API holds at most

\* resp["data"] of GET nfe?pagina=p&limite=page_size
Page(p) ==
  LET lo == (p - 1) * page_size + 1
      hi == Min2(p * page_size, nServed) IN
    IF lo > hi THEN <<>> ELSE [i \in 1..(hi - lo + 1) |-> lo + i - 1]

\* A loop that only stops at an empty page.
is_last_page_empty(n_registros) == n_registros = 0

\* if len(registros) < self._page_size: break
is_last_page(n_registros) == n_registros < page_size

\* todas = []; pagina = 1
StartListing ==
  /\ UNCHANGED offPg
  /\ pgPc = "idle"
  /\ pgPc' = "loop"
  /\ pagina' = 1
  /\ todas' = <<>>
  /\ UNCHANGED <<page_size, nServed, requests, sizes>>

\* One turn of the while loop: listar_nfes(pagina) answers, the records are
\* appended, the loop stops or goes to the next page.
ListPage ==
  /\ UNCHANGED offPg
  /\ pgPc = "loop"
  /\ requests' = Append(requests, pagina)
  /\ LET registros == Page(pagina) IN
       /\ todas' = todas \o registros
       /\ sizes' = Append(sizes, Len(registros))
       /\ IF is_last_page(Len(registros))
            THEN pgPc' = "returned" /\ pagina' = pagina
            ELSE pgPc' = "loop" /\ pagina' = pagina + 1
  /\ UNCHANGED <<page_size, nServed>>

\* listar_nfes(pagina) raises: the exception leaves listar_todas_nfes.
ListPageRaises ==
  /\ UNCHANGED offPg
  /\ pgPc = "loop"
  /\ requests' = Append(requests, pagina)
  /\ pgPc' = "raised"
  /\ UNCHANGED <<page_size, nServed, pagina, todas, sizes>>

InitPg ==
  /\ page_size \in PageSizes
  /\ nServed \in 0..(MaxFullPages * page_size + page_size - 1)
  /\ pgPc = "idle"
  /\ pagina = 0
  /\ todas = <<>>
  /\ requests = <<>>
  /\ sizes = <<>>

\* The listing when it is not under study.
ParkedPg ==
  /\ page_size = 100
  /\ nServed = 0
  /\ pgPc = "idle"
  /\ pagina = 0
  /\ todas = <<>>
  /\ requests = <<>>
  /\ sizes = <<>>

NextPg == StartListing \/ ListPage \/ ListPageRaises

----------------------------------------------------------------------------
(***************************************************************************)
(* Pipeline._salvar_nfe and the invoice upserts of the repository, on      *)
(* PostgreSQL: a failed statement aborts the transaction, whose statements *)
(* all fail from then on and whose COMMIT rolls back.  Amounts are whole   *)
(* numbers; None and JSON null are written Null (codes) and 0 (ids).       *)
(***************************************************************************)

InvoiceIds == {1, 2}
Null == "NULL"
Codes == {"A", Null}

SeqsUpTo(S, n) == UNION {[1..k -> S] : k \in 0..n}

\* An amount that is null, absent or not a number in the payload.
NoneAmount == -1

\* _to_float(val): float(val), or 0.0 when it cannot be converted
to_float(val) == IF val = NoneAmount THEN 0 ELSE val

\* data.itens[] and data.parcelas[] of a detail payload
ItemPayloads ==
  {it \in [codigo : Codes, quantidade : {1, 2}, valor : {10}, valorTotal : {10, 20}] :
     /\ it.valorTotal = it.valor * it.quantidade
     /\ it.codigo = Null => it.quantidade = 1}
ParcelaPayloads == [formaPagamento : {0, 1}, valor : {10}]

Payloads ==
  [valorNota : {NoneAmount, 10},
   itens : SeqsUpTo(ItemPayloads, MaxItens),
   parcelas : SeqsUpTo(ParcelaPayloads, MaxParcelas)]

\* What the API answers for the second invoice: one item, or the same
\* product code twice.
OtherItem == [codigo |-> "A", quantidade |-> 1, valor |-> 10, valorTotal |-> 10]
OtherPayload ==
  [valorNota |-> 10, itens |-> <<OtherItem>>,
   parcelas |-> <<[formaPagamento |-> 1, valor |-> 10]>>]
RepeatedPayload ==
  [valorNota |-> 10, itens |-> <<OtherItem, OtherItem>>,
   parcelas |-> <<[formaPagamento |-> 1, valor |-> 10]>>]

RECURSIVE SumTotal(_)
SumTotal(itens) ==
  IF itens = <<>> THEN 0
  ELSE to_float(itens[1].valorTotal) + SumTotal(Tail(itens))

\* A header whose discount is the plain difference.
cabecalho_signed(nfe_id, dados) ==
  LET valor_nota == to_float(dados.valorNota)
      total_produtos == SumTotal(dados.itens) IN
    [id |-> nfe_id,
     total_produtos |-> total_produtos,
     total_nota |-> valor_nota,
     total_descontos |-> total_produtos - valor_nota]

\* cabecalho = {...}: the totals of the header (lines 258-277)
cabecalho_of(nfe_id, dados) ==
  LET valor_nota == to_float(dados.valorNota)
      total_produtos == SumTotal(dados.itens) IN
    [id |-> nfe_id,
     total_produtos |-> total_produtos,
     total_nota |-> valor_nota,
     total_descontos |-> IF total_produtos > valor_nota
                           THEN total_produtos - valor_nota ELSE 0]

\* itens.append({...}) for it in itens_raw
itens_of(dados) ==
  [i \in 1..Len(dados.itens) |->
     [codigo_produto |-> dados.itens[i].codigo,
      quantidade |-> dados.itens[i].quantidade,
      valor_unitario |-> dados.itens[i].valor,
      valor_total |-> to_float(dados.itens[i].valorTotal),
      valor_desconto |-> 0]]

\* parc.get("formaPagamento", {}).get("id") raises on a null formaPagamento
parcelas_ok(dados) ==
  \A i \in 1..Len(dados.parcelas) : dados.parcelas[i].formaPagamento # 0

\* pagamentos.append({...}) for parc in parcelas_raw
pagamentos_of(dados) ==
  [i \in 1..Len(dados.parcelas) |->
     [tipo_pagamento |-> dados.parcelas[i].formaPagamento,
      valor |-> dados.parcelas[i].valor]]

\* upsert_nfe_cabecalho: INSERT ... ON CONFLICT (id) DO UPDATE
upsert_nfe_cabecalho(tab, data) == {r \in tab : r.id # data.id} \cup {data}

\* INSERT INTO nfe_itens VALUES (...), (...) ON CONFLICT ON CONSTRAINT
\* uq_nfe_item DO UPDATE SET quantidade = nfe_itens.quantidade +
\* excluded.quantidade, ...: row by row; a row that conflicts with one this
\* same command inserted or updated makes the command fail; NULL codes never
\* conflict.
RECURSIVE InsertItens(_, _, _, _, _, _)
InsertItens(rows, nfe_id, itens, i, touched, seq) ==
  IF i > Len(itens) THEN [ok |-> TRUE, rows |-> rows, seq |-> seq]
  ELSE
    LET it == itens[i]
        conf == {r \in rows : /\ r.nfe_id = nfe_id
                              /\ it.codigo_produto # Null
                              /\ r.codigo_produto = it.codigo_produto} IN
      IF conf = {}
        THEN InsertItens(
               rows \cup {[id |-> seq + 1, nfe_id |-> nfe_id,
                           codigo_produto |-> it.codigo_produto,
                           quantidade |-> it.quantidade,
                           valor_unitario |-> it.valor_unitario,
                           valor_total |-> it.valor_total,
                           valor_desconto |-> it.valor_desconto]},
               nfe_id, itens, i + 1, touched \cup {seq + 1}, seq + 1)
        ELSE
          LET r == CHOOSE r \in conf : TRUE IN
            IF r.id \in touched
              THEN [ok |-> FALSE, rows |-> rows, seq |-> seq + 1]
              ELSE InsertItens(
                     (rows \ {r}) \cup
                       {[r EXCEPT !.quantidade = r.quantidade + it.quantidade,
                                  !.valor_unitario = it.valor_unitario,
                                  !.valor_total = r.valor_total + it.valor_total,
                                  !.valor_desconto = r.valor_desconto + it.valor_desconto]},
                     nfe_id, itens, i + 1, touched \cup {r.id}, seq + 1)

\* An upsert of the items that does not delete the invoice's rows first.
upsert_nfe_itens_no_delete(tab, nfe_id, itens, seq) ==
  IF itens = <<>> THEN [ok |-> TRUE, rows |-> tab, seq |-> seq]
  ELSE LET res == InsertItens(tab, nfe_id, itens, 1, {}, seq) IN
         IF res.ok THEN res ELSE [res EXCEPT !.rows = tab]

\* upsert_nfe_itens: DELETE WHERE nfe_id = :id; if itens: the INSERT above
upsert_nfe_itens(tab, nfe_id, itens, seq) ==
  LET kept == {r \in tab : r.nfe_id # nfe_id} IN
    IF itens = <<>> THEN [ok |-> TRUE, rows |-> kept, seq |-> seq]
    ELSE LET res == InsertItens(kept, nfe_id, itens, 1, {}, seq) IN
           IF res.ok THEN res ELSE [res EXCEPT !.rows = kept]

\* upsert_nfe_pagamentos: DELETE WHERE nfe_id = :id; if pagamentos: INSERT
upsert_nfe_pagamentos(tab, nfe_id, pagamentos, seq) ==
  {r \in tab : r.nfe_id # nfe_id} \cup
    {[id |-> seq + i, nfe_id |-> nfe_id,
      tipo_pagamento |-> pagamentos[i].tipo_pagamento,
      valor |-> pagamentos[i].valor] : i \in 1..Len(pagamentos)}

\* The line items of an invoice without their surrogate ids, with multiplicity.
ItemBag(rows, nfe_id) ==
  LET rs == {r \in rows : r.nfe_id = nfe_id}
      P(r) == [codigo_produto |-> r.codigo_produto, quantidade |-> r.quantidade,
               valor_unitario |-> r.valor_unitario, valor_total |-> r.valor_total,
               valor_desconto |-> r.valor_desconto] IN
    [x \in {P(r) : r \in rs} |-> Cardinality({r \in rs : P(r) = x})]

\* The payments of an invoice without their surrogate ids, with multiplicity.
PagBag(rows, nfe_id) ==
  LET rs == {r \in rows : r.nfe_id = nfe_id}
      P(r) == [tipo_pagamento |-> r.tipo_pagamento, valor |-> r.valor] IN
    [x \in {P(r) : r \in rs} |-> Cardinality({r \in rs : P(r) = x})]

\* What a reader of the store gets: the rows of an aborted transaction are
\* never seen, its COMMIT rolls back.
VisItens == IF tx_failed THEN committed.itens ELSE nfe_itens
VisPagamentos == IF tx_failed THEN committed.pagamentos ELSE nfe_pagamentos
VisCabecalho == IF tx_failed THEN committed.cabecalho ELSE nfe_cabecalho

\* self._salvar_nfe(resumo, detalhe) inside the try of _extrair_nfes: the
\* header, the items, the payments; whatever is raised is caught and logged
\* by the caller, with no rollback.
SalvarNfe(nfe_id) ==
  /\ UNCHANGED offMg
  /\ extracted[nfe_id] < MaxExtractions
  /\ extracted' = [extracted EXCEPT ![nfe_id] = @ + 1]
  /\ lastOp' = nfe_id
  /\ UNCHANGED <<committed, upstream>>
  /\ LET dados == upstream[nfe_id]
         res == upsert_nfe_itens(nfe_itens, nfe_id, itens_of(dados), item_seq) IN
       IF tx_failed
         THEN \* the first statement fails: InFailedSqlTransaction
              /\ mgResult' = "raised"
              /\ UNCHANGED <<nfe_cabecalho, nfe_itens, nfe_pagamentos, tx_failed,
                             item_seq, pag_seq>>
         ELSE
           /\ nfe_cabecalho' =
                upsert_nfe_cabecalho(nfe_cabecalho, cabecalho_of(nfe_id, dados))
           /\ nfe_itens' = res.rows
           /\ item_seq' = res.seq
           /\ IF ~res.ok
                THEN \* the INSERT of the items fails: CardinalityViolation
                     /\ tx_failed' = TRUE
                     /\ mgResult' = "raised"
                     /\ UNCHANGED <<nfe_pagamentos, pag_seq>>
                ELSE IF ~parcelas_ok(dados)
                  THEN \* AttributeError while the payments are built
                       /\ mgResult' = "raised"
                       /\ UNCHANGED <<nfe_pagamentos, pag_seq, tx_failed>>
                  ELSE /\ nfe_pagamentos' =
                            upsert_nfe_pagamentos(nfe_pagamentos, nfe_id,
                                                  pagamentos_of(dados), pag_seq)
                       /\ pag_seq' = pag_seq + Len(dados.parcelas)
                       /\ mgResult' = "ok"
                       /\ UNCHANGED tx_failed
  /\ after_first' =
       IF mgResult' = "ok" /\ ~after_first[nfe_id].done
         THEN [after_first EXCEPT ![nfe_id] =
                 [done |-> TRUE,
                  itens |-> ItemBag(VisItens', nfe_id),
                  pagamentos |-> PagBag(VisPagamentos', nfe_id)]]
         ELSE after_first

\* self.db.commit(): a checkpoint or the commit that ends a run
MgCommit ==
  /\ UNCHANGED offMg
  /\ lastOp' = 0
  /\ tx_failed' = FALSE
  /\ IF tx_failed
       THEN /\ nfe_cabecalho' = committed.cabecalho
            /\ nfe_itens' = committed.itens
            /\ nfe_pagamentos' = committed.pagamentos
            /\ UNCHANGED committed
       ELSE /\ committed' = [cabecalho |-> nfe_cabecalho, itens |-> nfe_itens,
                             pagamentos |-> nfe_pagamentos]
            /\ UNCHANGED <<nfe_cabecalho, nfe_itens, nfe_pagamentos>>
  /\ UNCHANGED <<item_seq, pag_seq, upstream, extracted, after_first, mgResult>>

\* self.db.rollback(): the except clause of a run
MgRollback ==
  /\ UNCHANGED offMg
  /\ lastOp' = 0
  /\ tx_failed' = FALSE
  /\ nfe_cabecalho' = committed.cabecalho
  /\ nfe_itens' = committed.itens
  /\ nfe_pagamentos' = committed.pagamentos
  /\ UNCHANGED <<committed, item_seq, pag_seq, upstream, extracted, after_first,
                 mgResult>>

EmptyBags == [done |-> FALSE, itens |-> <<>>, pagamentos |-> <<>>]

InitMg ==
  /\ \E pl \in Payloads, other \in {OtherPayload, RepeatedPayload} :
       upstream = [i \in InvoiceIds |-> IF i = 1 THEN pl ELSE other]
  /\ nfe_cabecalho = {}
  /\ nfe_itens = {}
  /\ nfe_pagamentos = {}
  /\ item_seq = 0
  /\ pag_seq = 0
  /\ committed = [cabecalho |-> nfe_cabecalho, itens |-> nfe_itens,
                  pagamentos |-> nfe_pagamentos]
  /\ tx_failed = FALSE
  /\ extracted = [i \in InvoiceIds |-> 0]
  /\ after_first = [i \in InvoiceIds |-> EmptyBags]
  /\ lastOp = 0
  /\ mgResult = "none"

\* The invoice tables when they are not under study.
ParkedMg ==
  /\ upstream = [i \in InvoiceIds |-> OtherPayload]
  /\ nfe_cabecalho = {}
  /\ nfe_itens = {}
  /\ nfe_pagamentos = {}
  /\ item_seq = 0
  /\ pag_seq = 0
  /\ committed = [cabecalho |-> {}, itens |-> {}, pagamentos |-> {}]
  /\ tx_failed = FALSE
  /\ extracted = [i \in InvoiceIds |-> 0]
  /\ after_first = [i \in InvoiceIds |-> EmptyBags]
  /\ lastOp = 0
  /\ mgResult = "none"

NextMg == (\E id \in InvoiceIds : SalvarNfe(id)) \/ MgCommit \/ MgRollback

----------------------------------------------------------------------------
(***************************************************************************)
(* datetime.date as _gerar_periodos_mensais uses it: a date is a record,   *)
(* its ISO text a triple <<Y, M, D>>, and adding days goes through the     *)
(* proleptic Gregorian ordinal.                                            *)
(***************************************************************************)

date(y, m, d) == [year |-> y, month |-> m, day |-> d]

\* date.fromisoformat / date.isoformat
fromisoformat(s) == date(s[1], s[2], s[3])
isoformat(d) == <<d.year, d.month, d.day>>

is_leap(y) == y % 4 = 0 /\ (y % 100 # 0 \/ y % 400 = 0)

DAYS_BEFORE_MONTH == <<0, 31, 59, 90, 120, 151, 181, 212, 243, 273, 304, 334>>
DAYS_IN_MONTH == <<31, 28, 31, 30, 31, 30, 31, 31, 30, 31, 30, 31>>

days_before_year(y) ==
  (y - 1) * 365 + ((y - 1) \div 4) - ((y - 1) \div 100) + ((y - 1) \div 400)

days_before_month(y, m) ==
  DAYS_BEFORE_MONTH[m] + (IF m > 2 /\ is_leap(y) THEN 1 ELSE 0)

\* date.toordinal()
toordinal(d) == days_before_year(d.year) + days_before_month(d.year, d.month) + d.day

\* date.fromordinal(n)
fromordinal(ordinal) ==
  LET n0 == ordinal - 1
      n400 == n0 \div 146097
      r400 == n0 % 146097
      n100 == r400 \div 36524
      r100 == r400 % 36524
      n4 == r100 \div 1461
      r4 == r100 % 1461
      n1 == r4 \div 365
      n == r4 % 365
      y == n400 * 400 + 1 + n100 * 100 + n4 * 4 + n1
      leapyear == n1 = 3 /\ (n4 # 24 \/ n100 = 3)
      month0 == (n + 50) \div 32
      preceding0 == DAYS_BEFORE_MONTH[month0] + (IF month0 > 2 /\ leapyear THEN 1 ELSE 0)
      month == IF preceding0 > n THEN month0 - 1 ELSE month0
      preceding ==
        IF preceding0 > n
          THEN preceding0 - (DAYS_IN_MONTH[month]
                               + (IF month = 2 /\ leapyear THEN 1 ELSE 0))
          ELSE preceding0 IN
    IF n1 = 4 \/ n100 = 4 THEN date(y - 1, 12, 31)
    ELSE date(y, month, n - preceding + 1)

\* d + timedelta(days=k)
plus_days(d, k) == fromordinal(toordinal(d) + k)

\* d1 <= d2, min(d1, d2)
date_le(d1, d2) == toordinal(d1) <= toordinal(d2)
date_min(d1, d2) == IF date_le(d1, d2) THEN d1 ELSE d2

\* A month end that forgets to step one day back from the first of the next
\* month.
fim_mes_first_of_next(cursor) ==
  IF cursor.month = 12
    THEN date(cursor.year + 1, 1, 1)
    ELSE date(cursor.year, cursor.month + 1, 1)

\* if cursor.month == 12: date(cursor.year + 1, 1, 1) - timedelta(days=1)
\* else: date(cursor.year, cursor.month + 1, 1) - timedelta(days=1)
fim_mes(cursor) ==
  IF cursor.month = 12
    THEN plus_days(date(cursor.year + 1, 1, 1), -1)
    ELSE plus_days(date(cursor.year, cursor.month + 1, 1), -1)

\* The while loop of _gerar_periodos_mensais from `cursor` on.
RECURSIVE periodos_from(_, _)
periodos_from(cursor, fim) ==
  IF ~date_le(cursor, fim) THEN <<>>
  ELSE LET periodo_fim == date_min(fim_mes(cursor), fim) IN
         <<<<isoformat(cursor), isoformat(periodo_fim)>>>>
           \o periodos_from(plus_days(periodo_fim, 1), fim)

\* _gerar_periodos_mensais(data_inicio, data_fim)
gerar_periodos_mensais(inicio_iso, fim_iso) ==
  periodos_from(fromisoformat(inicio_iso), fromisoformat(fim_iso))

\* The earliest start date handed to the function.
FirstStart == date(2023, 12, 1)

\* periodos = _gerar_periodos_mensais(data_inicio, data_fim)
GerarPeriodos ==
  /\ UNCHANGED offGp
  /\ ~gpDone
  /\ periodos' = gerar_periodos_mensais(data_inicio, data_fim)
  /\ gpDone' = TRUE
  /\ UNCHANGED <<data_inicio, data_fim>>

InitGp ==
  /\ \E a \in 0..MaxStartOffset, b \in -1..MaxSpanDays :
       /\ data_inicio = isoformat(plus_days(FirstStart, a))
       /\ data_fim = isoformat(plus_days(FirstStart, a + b))
  /\ periodos = <<>>
  /\ gpDone = FALSE

\* The splitting when it is not under study.
ParkedGp ==
  /\ data_inicio = isoformat(FirstStart)
  /\ data_fim = isoformat(FirstStart)
  /\ periodos = <<>>
  /\ gpDone = FALSE

NextGp == GerarPeriodos

----------------------------------------------------------------------------
(***************************************************************************)
(* Pipeline._extrair_contatos and Pipeline._extrair_produtos.  A value of  *)
(* a payload is a record: its JSON type and its content; None is NoRef.    *)
(***************************************************************************)

NoRef == [t |-> "none", v |-> ""]
Ref(t, v) == [t |-> t, v |-> v]

\* data.contato.id of a detail: absent, 0, a number, or the number as text
ContatoRefs == {Ref("none", 0), Ref("int", 0), Ref("int", 2), Ref("str", 1)}
\* data.itens[].codigo of the items of a detail: absent, empty, text, or a
\* number
ItemLists == {<<>>, <<NoRef, Ref("str", "")>>, <<Ref("str", "7")>>,
              <<Ref("str", "A"), Ref("int", "7")>>}

Detalhes == [contato : ContatoRefs, itens : ItemLists]

\* _to_int(val): int(val), or None (written -1) when it cannot be converted
to_int(ref) == IF ref.t = "none" THEN -1 ELSE ref.v

\* `if cid:` -- None and 0 are left out
truthy_int(n) == n # -1 /\ n # 0

\* `if codigo:` -- None and "" are left out (a number 7 is kept)
truthy(ref) == ref.t # "none" /\ ref.v # ""

\* str(codigo)
str(ref) == ref.v

\* contato_ids_nfe: the loop over nfes of _extrair_contatos
contato_ids_nfe(ns) ==
  {to_int(ns[k].contato) : k \in {j \in 1..Len(ns) : truthy_int(to_int(ns[j].contato))}}

\* codigos_nfe: the loops over nfes and their items of _extrair_produtos
codigos_nfe(ns) ==
  UNION {{str(ns[k].itens[i]) :
            i \in {j \in 1..Len(ns[k].itens) : truthy(ns[k].itens[j])}} :
         k \in 1..Len(ns)}

\* get_existing_contato_ids: set(select(Contato.id))
get_existing_contato_ids == {r.id : r \in contatos}

\* get_existing_produto_codigos: {c for c in rows if c is not None}
get_existing_produto_codigos == {r.codigo : r \in {q \in produtos : q.codigo # ""}}

\* A difference that is not taken: everything referenced is looked up.
novos_all(referenced, existentes) == referenced

\* novos = contato_ids_nfe - existentes; novos = codigos_nfe - existentes
novos_of(referenced, existentes) == referenced \ existentes

\* The ids under which the API may hold the product it answers for a code.
ProdutoIds == {1, 2}

\* upsert_produto: INSERT ... ON CONFLICT (id) DO UPDATE
upsert_produto(tab, data) == {r \in tab : r.id # data.id} \cup {data}

\* upsert_contato: INSERT ... ON CONFLICT (id) DO UPDATE
upsert_contato(tab, data) == {r \in tab : r.id # data.id} \cup {data}

\* A loop that ends at the first lookup that fails.
restantes_break(pendentes, chave, falhou) ==
  IF falhou THEN {} ELSE pendentes \ {chave}

\* `for ... in novos` with a try inside: whether the turn failed or not, the
\* loop goes on with the other elements
restantes(pendentes, chave, falhou) == pendentes \ {chave}

\* _extrair_contatos up to the loop over novos
ExtrairContatos ==
  /\ UNCHANGED offEn
  /\ enPc = "contatos"
  /\ novos' = novos_of(contato_ids_nfe(nfes), get_existing_contato_ids)
  /\ atStart' = [atStart EXCEPT !.contatos = get_existing_contato_ids,
                                !.linhas_contatos = contatos]
  /\ enPc' = "contatos_loop"
  /\ UNCHANGED <<nfes, contatos, produtos, fetched, stats, falhos>>

\* One turn of `for contato_id in novos`: buscar_contato, upsert_contato,
\* or the except clause
BuscarContato ==
  /\ UNCHANGED offEn
  /\ enPc = "contatos_loop"
  /\ \E contato_id \in novos :
       /\ fetched' = Append(fetched, <<"contato", contato_id>>)
       /\ \/ /\ contatos' = upsert_contato(contatos,
                              [id |-> contato_id, dados |-> "agora"])
             /\ stats' = [stats EXCEPT !.contatos = @ + 1]
             /\ novos' = restantes(novos, contato_id, FALSE)
             /\ UNCHANGED falhos
          \/ /\ falhos' = [falhos EXCEPT !.contatos = @ \cup {contato_id}]
             /\ novos' = restantes(novos, contato_id, TRUE)
             /\ UNCHANGED <<contatos, stats>>      \* the lookup raises
  /\ UNCHANGED <<nfes, produtos, enPc, atStart>>

\* the loop over novos is over; _extrair_produtos up to its loop
ExtrairProdutos ==
  /\ UNCHANGED offEn
  /\ enPc = "contatos_loop" /\ novos = {}
  /\ novos' = novos_of(codigos_nfe(nfes), get_existing_produto_codigos)
  /\ atStart' = [atStart EXCEPT !.produtos = get_existing_produto_codigos,
                                !.linhas_produtos = produtos]
  /\ enPc' = "produtos_loop"
  /\ UNCHANGED <<nfes, contatos, produtos, fetched, stats, falhos>>

\* One turn of `for codigo in novos`: buscar_produto_por_codigo, which
\* answers None when nothing matches or the request fails, upsert_produto
\* under the id of the product the API answered
BuscarProduto ==
  /\ UNCHANGED offEn
  /\ enPc = "produtos_loop"
  /\ \E codigo \in novos :
       /\ fetched' = Append(fetched, <<"produto", codigo>>)
       /\ \/ \E id \in ProdutoIds :
               /\ produtos' = upsert_produto(produtos,
                                [id |-> id, codigo |-> codigo,
                                 dados |-> "agora"])
               /\ stats' = [stats EXCEPT !.produtos = @ + 1]
               /\ novos' = restantes(novos, codigo, FALSE)
               /\ UNCHANGED falhos
          \/ /\ falhos' = [falhos EXCEPT !.produtos = @ \cup {codigo}]
             /\ novos' = restantes(novos, codigo, TRUE)
             /\ UNCHANGED <<produtos, stats>>      \* `if not produto: continue`
  /\ UNCHANGED <<nfes, contatos, enPc, atStart>>

\* the loop over novos is over
ProdutosDone ==
  /\ UNCHANGED offEn
  /\ enPc = "produtos_loop" /\ novos = {}
  /\ enPc' = "done"
  /\ UNCHANGED <<nfes, contatos, produtos, novos, atStart, fetched, stats, falhos>>

NoStart == [contatos |-> {}, produtos |-> {}, linhas_contatos |-> {},
            linhas_produtos |-> {}]

InitEn ==
  /\ nfes \in SeqsUpTo(Detalhes, MaxNfes)
  /\ contatos \in {{}, {[id |-> 1, dados |-> "antes"]}}
  /\ produtos \in {{}, {[id |-> 1, codigo |-> "A", dados |-> "antes"]}}
  /\ enPc = "contatos"
  /\ novos = {}
  /\ atStart = NoStart
  /\ fetched = <<>>
  /\ stats = [nfes |-> Len(nfes), contatos |-> 0, produtos |-> 0]
  /\ falhos = [contatos |-> {}, produtos |-> {}]

\* The pass when it is not under study.
ParkedEn ==
  /\ nfes = <<>>
  /\ contatos = {}
  /\ produtos = {}
  /\ enPc = "contatos"
  /\ novos = {}
  /\ atStart = NoStart
  /\ fetched = <<>>
  /\ stats = [nfes |-> 0, contatos |-> 0, produtos |-> 0]
  /\ falhos = [contatos |-> {}, produtos |-> {}]

NextEn ==
  \/ ExtrairContatos
  \/ BuscarContato
  \/ ExtrairProdutos
  \/ BuscarProduto
  \/ ProdutosDone

----------------------------------------------------------------------------
(***************************************************************************)
(* Pipeline.run and Pipeline.run_full: one invocation, from the window to  *)
(* the run record.  An invoice is its id; what _salvar_nfe does with it is *)
(* one of four kinds (the tables themselves are followed above).  None is  *)
(* written <<>>.                                                           *)
(***************************************************************************)

Today0 == toordinal(date(2024, 3, 1))

\* data_referencia.strftime("%Y-%m-%d"), dt.strftime("%Y-%m-%d")
strftime(ordinal) == isoformat(fromordinal(ordinal))

NoRun == [status |-> "none", erro |-> "", data_referencia |-> 0,
          nfes_processadas |-> 0]

\* A query without the WHERE clause on status.
get_last_run_any_status ==
  IF etl_controle = <<>> THEN NoRun
  ELSE etl_controle[CHOOSE k \in 1..Len(etl_controle) :
         \A j \in 1..Len(etl_controle) :
           \/ etl_controle[j].data_referencia < etl_controle[k].data_referencia
           \/ (etl_controle[j].data_referencia = etl_controle[k].data_referencia
                 /\ j <= k)]

\* get_last_successful_run: select(EtlControle).where(status == "success")
\*   .order_by(data_referencia.desc()), first()
get_last_successful_run ==
  LET succ == {k \in 1..Len(etl_controle) : etl_controle[k].status = "success"} IN
    IF succ = {} THEN NoRun
    ELSE etl_controle[CHOOSE k \in succ :
           \A j \in succ :
             \/ etl_controle[j].data_referencia < etl_controle[k].data_referencia
             \/ (etl_controle[j].data_referencia = etl_controle[k].data_referencia
                   /\ j <= k)]

\* The date ranges run_full() is called with.
FullRanges == {<< <<2023, 12, 15>>, <<2024, 1, 10>> >>}

\* periodos = _gerar_periodos_mensais(data_inicio, data_fim), computed once
\* for each range
periodos_de == [r \in FullRanges |-> gerar_periodos_mensais(r[1], r[2])]

\* Step 1 of run(): `if not data_inicio`
window_start(inicio_arg) ==
  IF inicio_arg # <<>> THEN inicio_arg
  ELSE LET last_run == get_last_successful_run IN
         IF last_run # NoRun
           THEN strftime(last_run.data_referencia)
           ELSE strftime(today - EXTRACTION_DAYS_BACK)

\* Step 1 of run(): `if not data_fim`
window_end(fim_arg) == IF fim_arg # <<>> THEN fim_arg ELSE strftime(today)

NoFalha == [tipo |-> "", etapa |-> ""]
Falha(tipo, etapa) == [tipo |-> tipo, etapa |-> etapa]
FirstFalha(tipo, etapa) == IF falha = NoFalha THEN Falha(tipo, etapa) ELSE falha

EmptyStore == [nfes |-> {}, parciais |-> {}, contatos |-> FALSE, produtos |-> FALSE]

\* What _salvar_nfe meets: a detail that is stored ("boa"), a detail request
\* that raises ("sem_detalhe"), a payload on which _salvar_nfe raises after
\* the header and the items were written ("malformada"), a payload a statement
\* of which the database rejects ("rejeitada").
NfeKinds == {"boa", "sem_detalhe", "malformada", "rejeitada"}

\* A run without checkpoints.
checkpoint_never(n) == FALSE

\* self.stats["nfes"] % CHECKPOINT_INTERVAL == 0
checkpoint_due(n) == n % CHECKPOINT_INTERVAL = 0

\* db.commit(): the COMMIT of an aborted transaction rolls it back
commit(written, last_committed, failed) ==
  IF failed THEN last_committed ELSE written

\* A rollback that empties the tables.
rollback_wipes(written, last_committed) == EmptyStore

\* db.rollback()
rollback(written, last_committed) == last_committed

\* What the Session reads: nothing of an aborted transaction is seen.
Visible == IF aborted THEN store_committed ELSE store

\* A step of the invocation: its name, the period it belongs to (0 when it
\* belongs to none) and the invoices it was handed.
Passo(nome, k, dadas) == [passo |-> nome, periodo |-> k, nfes |-> dadas]

\* An assignment in place of the extend: the last period's invoices only.
extend_last(coletadas, detalhadas) == detalhadas

\* todas_nfes.extend(nfes)
extend(coletadas, detalhadas) == coletadas \cup detalhadas

\* run() up to the try block: the window, create_etl_run;
\* run_full() up to its try block: create_etl_run
RunStart ==
  /\ UNCHANGED offRn
  /\ passos' = Append(passos, Passo("create", 0, {}))
  /\ UNCHANGED <<nfes_detalhadas, todas_nfes>>
  /\ rnPc = "idle"
  /\ janela' = IF args.modo = "run"
                 THEN [data_inicio |-> window_start(args.data_inicio),
                       data_fim |-> window_end(args.data_fim)]
                 ELSE [data_inicio |-> args.data_inicio, data_fim |-> args.data_fim]
  /\ etl_controle' = create_etl_run(today)
  /\ rn_id' = Len(etl_controle) + 1
  /\ rnPc' = "refresh"
  /\ UNCHANGED <<today, args, tamanhos, run_periodos, pidx, ri, vistos,
                 stats_nfes, store, store_committed, aborted, excecao,
                 checkpointed, ultimo, falha, depois, bad, abortou>>

\* access_token = refresh_access_token(self.db); run_full: the periods
RunRefresh ==
  /\ UNCHANGED offRn
  /\ passos' = Append(passos, Passo("refresh", 0, {}))
  /\ UNCHANGED <<nfes_detalhadas, todas_nfes>>
  /\ rnPc = "refresh"
  /\ \/ /\ run_periodos' =
             IF args.modo = "run"
               THEN << <<janela.data_inicio, janela.data_fim>> >>
               ELSE periodos_de[<<janela.data_inicio, janela.data_fim>>]
        /\ pidx' = 1
        /\ rnPc' = IF run_periodos' = <<>> THEN "contatos" ELSE "listar"
        /\ UNCHANGED <<excecao, falha>>
     \/ /\ excecao' = "RuntimeError"
        /\ falha' = FirstFalha("RuntimeError", "refresh")
        /\ rnPc' = "except"
        /\ UNCHANGED <<run_periodos, pidx>>
  /\ UNCHANGED <<etl_controle, today, args, tamanhos, janela, rn_id, ri, vistos,
                 stats_nfes, store, store_committed, aborted, checkpointed,
                 ultimo, depois, bad, abortou>>

\* _extrair_nfes: resumos = client.listar_todas_nfes(...)
ListarTodasNfes ==
  /\ UNCHANGED offRn
  /\ passos' = Append(passos, Passo("nfes", pidx, {}))
  /\ nfes_detalhadas' = {}
  /\ UNCHANGED todas_nfes
  /\ rnPc = "listar"
  /\ \/ /\ ri' = 0
        /\ rnPc' = "nfes"
        /\ UNCHANGED <<excecao, falha>>
     \/ /\ excecao' = "HTTPStatusError"
        /\ falha' = FirstFalha("HTTPStatusError", "listar")
        /\ rnPc' = "except"
        /\ UNCHANGED ri
  /\ UNCHANGED <<etl_controle, today, args, tamanhos, janela, rn_id, run_periodos,
                 pidx, vistos, stats_nfes, store, store_committed, aborted,
                 checkpointed, ultimo, depois, bad, abortou>>

\* One turn of `for i, resumo in enumerate(resumos, 1)`: detalhar_nfe,
\* _salvar_nfe, the count, the checkpoint, or the except clause
ProcessarNfe ==
  /\ UNCHANGED offRn
  /\ UNCHANGED <<passos, todas_nfes>>
  /\ rnPc = "nfes" /\ ri < tamanhos[pidx]
  /\ \E kind \in NfeKinds :
       LET id == vistos + 1
           saved == kind = "boa" /\ ~aborted
           written == IF aborted \/ kind \in {"sem_detalhe", "rejeitada"} THEN store
                      ELSE IF kind = "boa"
                        THEN [store EXCEPT !.nfes = @ \cup {id}]
                        ELSE [store EXCEPT !.parciais = @ \cup {id}]
           n == IF saved THEN stats_nfes + 1 ELSE stats_nfes IN
         /\ kind # "boa" => bad < MaxBad
         /\ bad' = IF kind # "boa" THEN bad + 1 ELSE bad
         /\ ultimo' = [id |-> id, kind |-> kind, saved |-> saved, counted |-> saved]
         /\ stats_nfes' = n
         /\ nfes_detalhadas' = IF saved THEN nfes_detalhadas \cup {id}
                              ELSE nfes_detalhadas
         /\ store' = written
         /\ IF saved /\ checkpoint_due(n)
              THEN /\ store_committed' = commit(written, store_committed, aborted)
                   /\ checkpointed' = checkpointed \cup written.nfes
              ELSE UNCHANGED <<store_committed, checkpointed>>
         /\ IF kind = "rejeitada" /\ ~aborted
              THEN /\ aborted' = TRUE
                   /\ falha' = FirstFalha("DBAPIError", "nfes")
              ELSE UNCHANGED <<aborted, falha>>
  /\ ri' = ri + 1
  /\ vistos' = vistos + 1
  /\ depois' = IF falha # NoFalha THEN depois + 1 ELSE depois
  /\ UNCHANGED <<etl_controle, today, args, tamanhos, janela, rnPc, rn_id,
                 run_periodos, pidx, excecao, abortou>>

\* The loop over resumos is over: run() goes on to the counterparties,
\* run_full() commits and takes the next period
FimListagem ==
  /\ UNCHANGED offRn
  /\ todas_nfes' = IF args.modo = "run" THEN nfes_detalhadas
                    ELSE extend(todas_nfes, nfes_detalhadas)
  /\ passos' = IF args.modo = "run" THEN passos
                ELSE Append(passos, Passo("commit", pidx, {}))
  /\ UNCHANGED nfes_detalhadas
  /\ rnPc = "nfes" /\ ri = tamanhos[pidx]
  /\ IF args.modo = "run"
       THEN /\ rnPc' = "contatos"
            /\ UNCHANGED <<store, store_committed, aborted, pidx>>
       ELSE /\ store_committed' = commit(store, store_committed, aborted)
            /\ store' = store_committed'
            /\ aborted' = FALSE
            /\ pidx' = pidx + 1
            /\ rnPc' = IF pidx < Len(run_periodos) THEN "listar" ELSE "contatos"
  /\ UNCHANGED <<etl_controle, today, args, tamanhos, janela, rn_id, run_periodos,
                 ri, vistos, stats_nfes, excecao, checkpointed, ultimo, falha,
                 depois, bad, abortou>>

\* _extrair_contatos: get_existing_contato_ids, outside any try, then the
\* loop, a rejected upsert_contato of which is caught
EtapaContatos ==
  /\ UNCHANGED offRn
  /\ passos' = Append(passos, Passo("contatos", 0, todas_nfes))
  /\ UNCHANGED <<nfes_detalhadas, todas_nfes>>
  /\ rnPc = "contatos"
  /\ IF aborted
       THEN /\ excecao' = "InternalError"
            /\ rnPc' = "except"
            /\ UNCHANGED <<store, aborted, falha, bad>>
       ELSE /\ rnPc' = "produtos"
            /\ excecao' = excecao
            /\ \/ /\ \E b \in BOOLEAN : store' = [store EXCEPT !.contatos = b]
                  /\ UNCHANGED <<aborted, falha, bad>>
               \/ /\ bad < MaxBad
                  /\ bad' = bad + 1
                  /\ aborted' = TRUE
                  /\ falha' = FirstFalha("DBAPIError", "contatos")
                  /\ store' = store
  /\ UNCHANGED <<etl_controle, today, args, tamanhos, janela, rn_id, run_periodos,
                 pidx, ri, vistos, stats_nfes, store_committed, checkpointed,
                 ultimo, depois, abortou>>

\* _extrair_produtos: get_existing_produto_codigos, outside any try, then the
\* loop, a rejected upsert_produto of which is caught
EtapaProdutos ==
  /\ UNCHANGED offRn
  /\ passos' = Append(passos, Passo("produtos", 0, todas_nfes))
  /\ UNCHANGED <<nfes_detalhadas, todas_nfes>>
  /\ rnPc = "produtos"
  /\ IF aborted
       THEN /\ excecao' = "InternalError"
            /\ rnPc' = "except"
            /\ UNCHANGED <<store, aborted, falha, bad>>
       ELSE /\ rnPc' = "commit"
            /\ excecao' = excecao
            /\ \/ /\ \E b \in BOOLEAN : store' = [store EXCEPT !.produtos = b]
                  /\ UNCHANGED <<aborted, falha, bad>>
               \/ /\ bad < MaxBad
                  /\ bad' = bad + 1
                  /\ aborted' = TRUE
                  /\ falha' = FirstFalha("DBAPIError", "produtos")
                  /\ store' = store
  /\ UNCHANGED <<etl_controle, today, args, tamanhos, janela, rn_id, run_periodos,
                 pidx, ri, vistos, stats_nfes, store_committed, checkpointed,
                 ultimo, depois, abortou>>

\* self.db.commit(), the final one
CommitFinal ==
  /\ UNCHANGED offRn
  /\ passos' = Append(passos, Passo("commit", 0, {}))
  /\ UNCHANGED <<nfes_detalhadas, todas_nfes>>
  /\ rnPc = "commit"
  /\ \/ /\ store_committed' = commit(store, store_committed, aborted)
        /\ store' = store_committed'
        /\ aborted' = FALSE
        /\ rnPc' = "success"
        /\ UNCHANGED <<excecao, falha>>
     \/ /\ excecao' = "OperationalError"          \* the commit itself fails
        /\ falha' = FirstFalha("OperationalError", "commit")
        /\ rnPc' = "except"
        /\ UNCHANGED <<store, store_committed, aborted>>
  /\ UNCHANGED <<etl_controle, today, args, tamanhos, janela, rn_id, run_periodos,
                 pidx, ri, vistos, stats_nfes, checkpointed, ultimo, depois, bad,
                 abortou>>

\* finish_etl_run(status="success", ...); return
RunSuccess ==
  /\ UNCHANGED offRn
  /\ passos' = Append(passos, Passo("success", 0, {}))
  /\ UNCHANGED <<nfes_detalhadas, todas_nfes>>
  /\ rnPc = "success"
  /\ etl_controle' = finish_etl_run(rn_id, "success", stats_nfes, "")
  /\ rnPc' = "done"
  /\ UNCHANGED <<today, args, tamanhos, janela, rn_id, run_periodos, pidx, ri,
                 vistos, stats_nfes, store, store_committed, aborted, excecao,
                 checkpointed, ultimo, falha, depois, bad, abortou>>

\* except Exception as e: self.db.rollback(); finish_etl_run(status="error",
\* erro=f"{type(e).__name__}: {e}"); return
RunError ==
  /\ UNCHANGED offRn
  /\ passos' = Append(passos, Passo("error", 0, {}))
  /\ UNCHANGED <<nfes_detalhadas, todas_nfes>>
  /\ rnPc = "except"
  /\ store' = rollback(store, store_committed)
  /\ aborted' = FALSE
  /\ etl_controle' = finish_etl_run(rn_id, "error", stats_nfes, excecao)
  /\ abortou' = TRUE
  /\ rnPc' = "done"
  /\ UNCHANGED <<today, args, tamanhos, janela, rn_id, run_periodos, pidx, ri,
                 vistos, stats_nfes, store_committed, excecao, checkpointed,
                 ultimo, falha, depois, bad>>

\* len(resumos) of the listing of a run()
ListingSizes == {0, 2, 51, 101}
\* len(resumos) of the listing of one period of a run_full()
PeriodSizes == {0, 1, 2}

NoUltimo == [id |-> 0, kind |-> "", saved |-> FALSE, counted |-> FALSE]

\* The local state of an invocation that has not begun.
RunLocals ==
  /\ janela = [data_inicio |-> <<>>, data_fim |-> <<>>]
  /\ rnPc = "idle"
  /\ rn_id = 0
  /\ run_periodos = <<>>
  /\ pidx = 0
  /\ ri = 0
  /\ vistos = 0
  /\ stats_nfes = 0
  /\ store = EmptyStore
  /\ store_committed = EmptyStore
  /\ aborted = FALSE
  /\ excecao = ""
  /\ checkpointed = {}
  /\ ultimo = NoUltimo
  /\ falha = NoFalha
  /\ depois = 0
  /\ bad = 0
  /\ abortou = FALSE
  /\ passos = <<>>
  /\ nfes_detalhadas = {}
  /\ todas_nfes = {}

\* One invocation on an empty history: run() without dates, or run_full()
\* over 2023-12-15 to 2024-01-10.
InitRn ==
  /\ today = Today0
  /\ \/ /\ args = [modo |-> "run", data_inicio |-> <<>>, data_fim |-> <<>>]
        /\ \E n \in ListingSizes : tamanhos = <<n>>
     \/ /\ \E r \in FullRanges :
             args = [modo |-> "run_full", data_inicio |-> r[1], data_fim |-> r[2]]
        /\ \E a, b \in PeriodSizes : tamanhos = <<a, b>>
  /\ RunLocals

\* The run when it is not under study.
ParkedRn ==
  /\ today = Today0
  /\ args = [modo |-> "run", data_inicio |-> <<>>, data_fim |-> <<>>]
  /\ tamanhos = <<0>>
  /\ RunLocals

NextRn ==
  \/ RunStart
  \/ RunRefresh
  \/ ListarTodasNfes
  \/ ProcessarNfe
  \/ FimListagem
  \/ EtapaContatos
  \/ EtapaProdutos
  \/ CommitFinal
  \/ RunSuccess
  \/ RunError

\* The run records earlier invocations left: created in order, each with the
\* date of its day, finished as success or error or left running by a crash.
HistoryRows ==
  [status : {"running", "success", "error"}, erro : {""},
   data_referencia : (Today0 - MaxDaysAgo)..Today0, nfes_processadas : {0}]

Histories ==
  {h \in SeqsUpTo(HistoryRows, MaxRuns) :
     \A k \in 1..(Len(h) - 1) : h[k].data_referencia <= h[k + 1].data_referencia}

\* A call of run() with or without dates, on a history of run records.
InitWn ==
  /\ today = Today0
  /\ \E i \in {<<>>, <<2024, 2, 10>>}, f \in {<<>>, <<2024, 2, 20>>} :
       args = [modo |-> "run", data_inicio |-> i, data_fim |-> f]
  /\ tamanhos = <<0>>
  /\ RunLocals
  /\ etl_controle \in Histories

\* The window and the run record of a call.
NextWn == RunStart

ParkedExt == ParkedGp /\ ParkedEn /\ ParkedRn


----------------------------------------------------------------------------
InitTokBase ==
  /\ oauth_tokens = {}
  /\ srvValid = {}
  /\ issued = 0
  /\ now = 0
  /\ pc = [p \in Procs |-> "idle"]
  /\ op = [p \in Procs |-> "none"]
  /\ token = [p \in Procs |-> NoToken]
  /\ resp = [p \in Procs |-> NoResp]
  /\ client_token = [p \in Procs |-> 0]
  /\ run_id = [p \in Procs |-> 0]
  /\ result = [p \in Procs |-> NoResult]
  /\ persisted = {}
  /\ apiUsed = {}
  /\ needsReauth = FALSE
  /\ need = NoNeed
  /\ rfOutcome = "none"
  /\ rfResult = NoResult
  /\ lastResult = NoResult

InitTok == InitTokBase /\ etl_controle = <<>>

Init == InitTok /\ ParkedCli /\ ParkedPg /\ ParkedMg /\ ParkedExt

Next ==
  \/ \E p \in Procs : StartAuth(p)
  \/ \E p \in Procs : AuthPost(p)
  \/ \E p \in Procs : AuthSave(p)
  \/ \E p \in Procs : StartRefresh(p)
  \/ \E p \in Procs : RefreshRead(p)
  \/ \E p \in Procs : RefreshPost(p)
  \/ \E p \in Procs : RefreshSave(p)
  \/ \E p \in Procs : RefreshSaveFails(p)
  \/ \E p \in Procs : CrashAfterExchange(p)
  \/ \E p \in Procs : StartGetValid(p)
  \/ \E p \in Procs : GetValidRead(p)
  \/ \E p \in Procs : RunCreate(p)
  \/ \E p \in Procs : RunExtract(p)
  \/ \E p \in Procs : RunFinish(p)
  \/ \E p \in Procs : RunExcept(p)
  \/ Tick

Spec == Init /\ [][Next]_vars

\* The client alone: calls, retries, the rate-limit gate.
InitClient == InitCli /\ InitTok /\ ParkedPg /\ ParkedMg /\ ParkedExt

SpecClient == InitClient /\ [][NextCli]_vars

\* The listing alone.
InitPage == InitPg /\ InitTok /\ ParkedCli /\ ParkedMg /\ ParkedExt

\* The invoice tables alone: _salvar_nfe, commit, rollback.
InitMerge == InitMg /\ InitTok /\ ParkedCli /\ ParkedPg /\ ParkedExt

SpecMerge == InitMerge /\ [][NextMg]_vars

SpecPage == InitPage /\ [][NextPg]_vars

InitBase == InitTok /\ ParkedCli /\ ParkedPg /\ ParkedMg

\* The calendar-month splitting alone.
InitPeriodos == InitGp /\ InitBase /\ ParkedEn /\ ParkedRn

\* The counterparty/product pass alone.
InitEntidades == InitEn /\ InitBase /\ ParkedGp /\ ParkedRn

\* One invocation of the pipeline alone.
InitRun == InitRn /\ InitBase /\ ParkedGp /\ ParkedEn

SpecRun == InitRun /\ [][NextRn]_vars

\* One invocation that is not abandoned: the process keeps executing the
\* next statement of the run as long as there is one.
InitRunFair == InitRun /\ tamanhos[1] <= CHECKPOINT_INTERVAL + 1

SpecRunFair == InitRunFair /\ [][NextRn]_vars /\ WF_vars(NextRn)

\* The window of a call of run() on a history of run records.
InitWindow ==
  /\ InitWn
  /\ InitTokBase /\ ParkedCli /\ ParkedPg /\ ParkedMg /\ ParkedGp /\ ParkedEn

SpecWindow == InitWindow /\ [][NextWn]_vars

SpecEntidades == InitEntidades /\ [][NextEn]_vars

\* Two POST /run requests in flight, each with its own Session: both have
\* stored their run record, and both have read the stored pair (pair 1,
\* which the authorization server accepts) before either has exchanged it.
InitCn ==
  /\ \E e \in ExpiresInAnswers :
       oauth_tokens = {[id |-> 1, access_token |-> 1, refresh_token |-> 1,
                        expires_at |-> expires_in_of([expires_in |-> e])]}
  /\ srvValid = {1}
  /\ issued = 1
  /\ now = 0
  /\ pc = [p \in Procs |-> "rf_post"]
  /\ op = [p \in Procs |-> "run"]
  /\ token = [p \in Procs |-> get_oauth_token]
  /\ resp = [p \in Procs |-> NoResp]
  /\ client_token = [p \in Procs |-> 0]
  /\ run_id = [p \in Procs |-> IF p = "p1" THEN 1 ELSE 2]
  /\ result = [p \in Procs |-> NoResult]
  /\ persisted = {1}
  /\ apiUsed = {}
  /\ needsReauth = FALSE
  /\ need = [by |-> "run", remaining |-> get_oauth_token.expires_at - now,
             known |-> TRUE, refreshed |-> FALSE]
  /\ rfOutcome = "none"
  /\ rfResult = NoResult
  /\ lastResult = NoResult
  /\ etl_controle = << [status |-> "running", erro |-> "",
                        data_referencia |-> today_of(now), nfes_processadas |-> 0],
                       [status |-> "running", erro |-> "",
                        data_referencia |-> today_of(now), nfes_processadas |-> 0] >>

\* The two runs from the exchange on, in any interleaving.
NextConc ==
  \/ \E p \in Procs : RefreshPost(p)
  \/ \E p \in Procs : RefreshSave(p)
  \/ \E p \in Procs : RefreshSaveFails(p)
  \/ \E p \in Procs : CrashAfterExchange(p)
  \/ \E p \in Procs : RunExtract(p)
  \/ \E p \in Procs : RunFinish(p)
  \/ \E p \in Procs : RunExcept(p)
  \/ Tick

\* The two runs alone.
InitConc == InitCn /\ ParkedCli /\ ParkedPg /\ ParkedMg /\ ParkedExt

SpecConc == InitConc /\ [][NextConc]_vars

SpecPeriodos == InitPeriodos /\ [][NextGp]_vars

----------------------------------------------------------------------------
(***************************************************************************)
(* Properties of the token lifecycle, checked under Spec.                  *)
(***************************************************************************)

Idle == \A p \in Procs : pc[p] = "idle"

\* C1: whenever the token exchange of refresh() succeeds, the new pair is
\* committed to the credential store before refresh() returns: every access
\* token refresh() has returned, every token a BlingClient was built with and
\* every token an API call was made with has been committed to the store.
C1_PersistedBeforeUse ==
  /\ apiUsed \subseteq persisted
  /\ \A p \in Procs : client_token[p] # 0 => client_token[p] \in persisted
  /\ rfResult.kind = "return" =>
       /\ rfResult.value \in persisted
       /\ Idle => \E t \in oauth_tokens :
                    t.access_token = rfResult.value /\ t.refresh_token \in srvValid

\* A run makes API calls with an access token its own refresh obtained.
C1_Witness ==
  /\ rfOutcome = "ok"
  /\ rfResult.kind = "return"
  /\ rfResult.value \in apiUsed
  /\ rfResult.value >= 2

\* C2: the single-use refresh credential is never lost: with no crash or
\* store failure between an exchange and its save, whenever no refresh is
\* between its exchange and its save the refresh token in the store is one
\* the authorization server accepts.
C2_RefreshTokenNeverLost ==
  (~needsReauth /\ \A p \in Procs : pc[p] # "rf_save") =>
     \A t \in oauth_tokens : t.refresh_token \in srvValid

\* After a failed refresh and a successful one the store holds the live pair.
C2_Witness ==
  /\ Idle /\ ~needsReauth
  /\ rfOutcome = "ok" /\ lastResult.kind = "return"
  /\ \E t \in oauth_tokens : t.refresh_token >= 3 /\ t.refresh_token \in srvValid
  /\ \E i \in 1..Len(etl_controle) : etl_controle[i].status = "error"

Finished == lastResult.kind # "none"

\* C3 as stated: for token requests and pipeline runs alike, the refresh
\* exchange is invoked if and only if less than ten minutes of the stored
\* credential's lifetime remain when the token is needed.
C3_RefreshIffBelowThreshold ==
  need.known =>
    /\ need.refreshed => need.remaining < RefreshThresholdMin
    /\ (Finished /\ need.remaining < RefreshThresholdMin) => need.refreshed

\* C3 as amended: get_valid_access_token invokes the refresh exchange if and
\* only if less than ten minutes remain, and otherwise returns the stored
\* access token as it is; a pipeline run invokes the exchange whatever
\* lifetime remains.
C3_GetValidRefreshIffBelowThreshold ==
  /\ (need.known /\ need.by = "get_valid") =>
       /\ need.refreshed => need.remaining < RefreshThresholdMin
       /\ (Finished /\ need.remaining < RefreshThresholdMin) => need.refreshed
       /\ (Finished /\ need.remaining >= RefreshThresholdMin) =>
            /\ lastResult.kind = "return"
            /\ \E t \in oauth_tokens : t.access_token = lastResult.value
            /\ rfOutcome = "none"
  /\ (need.known /\ need.by = "run" /\ Finished) => need.refreshed

\* A token request with five minutes left has refreshed and returned.
C3_Witness ==
  /\ need.known /\ need.by = "get_valid"
  /\ need.remaining = 5 /\ need.refreshed
  /\ lastResult.kind = "return" /\ lastResult.value >= 2

\* C4: after a crash between the exchange and the save the store still holds
\* the old refresh token, which the authorization server no longer accepts;
\* until exchange_authorization_code is performed again no refresh returns a
\* token, no exchange succeeds, and every exchange the server answers is
\* answered invalid_grant and ends in the fatal re-authorization error.
C4_CrashNeedsReauth ==
  needsReauth =>
    /\ \A t \in oauth_tokens : t.refresh_token \notin srvValid
    /\ rfOutcome # "ok"
    /\ rfResult.kind # "return"
    /\ \A p \in Procs : pc[p] # "rf_save"
    /\ rfOutcome = "invalid_grant" =>
         rfResult = Raise("RuntimeError", "reauth_required")

\* A refresh after the crash was answered invalid_grant and failed.
C4_Witness ==
  /\ needsReauth
  /\ rfOutcome = "invalid_grant"
  /\ lastResult = Raise("RuntimeError", "reauth_required")

\* C5: the credential store holds at most one record, exactly one once a
\* first authorization has been saved; the record is row id=1 and carries the
\* access token and the refresh token of one and the same issued pair; no
\* operation deletes it.
C5_OneCredentialRecord ==
  /\ Cardinality(oauth_tokens) <= 1
  /\ persisted # {} => Cardinality(oauth_tokens) = 1
  /\ \A t \in oauth_tokens :
       /\ t.id = 1
       /\ t.access_token = t.refresh_token
       /\ t.access_token \in persisted

\* The record of the first authorization has been replaced by a refresh.
C5_Witness ==
  /\ Cardinality(oauth_tokens) = 1
  /\ Cardinality(persisted) >= 2
  /\ rfOutcome = "ok" /\ rfResult.kind = "return"

----------------------------------------------------------------------------
(***************************************************************************)
(* Properties of listar_todas_nfes, checked under SpecPage.                *)
(***************************************************************************)

\* C6: the listing asks for pages 1, 2, 3, ... in order without gaps and
\* accumulates the records in order; every page before the one it stops at is
\* full; it returns after the first page with fewer records than the page
\* size, having made nServed \div page_size + 1 requests and holding all the
\* records; pages of 100, 100 and 37 give 237 records in 3 requests.
C6_PagingStopsAtShortPage ==
  /\ \A i \in 1..Len(requests) : requests[i] = i
  /\ todas = [i \in 1..Len(todas) |-> i]
  /\ \A i \in 1..Len(sizes) :
       (i < Len(sizes) \/ pgPc = "loop") => sizes[i] = page_size
  /\ pgPc = "returned" =>
       /\ Len(requests) = (nServed \div page_size) + 1
       /\ Len(sizes) = Len(requests)
       /\ sizes[Len(sizes)] < page_size
       /\ todas = [i \in 1..nServed |-> i]
  /\ (pgPc = "returned" /\ page_size = 100 /\ nServed = 237) =>
       /\ sizes = <<100, 100, 37>>
       /\ Len(requests) = 3
       /\ Len(todas) = 237

\* Pages of 100, 100 and 37 records have been listed.
C6_Witness ==
  /\ pgPc = "returned"
  /\ sizes = <<100, 100, 37>>
  /\ requests = <<1, 2, 3>>
  /\ Len(todas) = 237

----------------------------------------------------------------------------
(***************************************************************************)
(* Properties of BlingClient._request, checked under SpecClient.           *)
(***************************************************************************)

\* C7: every request of the client, retries after a 429 included, passes the
\* gate and is sent no earlier than the configured delay after the request
\* before it passed the gate, on the monotonic clock.
C7_MinimumInterval ==
  gates >= 2 =>
    /\ last_request_time >= prevGate + ApiRateLimitDelay
    /\ sends = gates => sendTime >= prevGate + ApiRateLimitDelay

\* The second call of the client was sent exactly one delay after the first
\* passed the gate: the gate slept.
C7_Witness ==
  /\ calls = 2 /\ gates >= 2 /\ sends = gates
  /\ sendTime = prevGate + ApiRateLimitDelay

\* The retry loop of one call: a request follows a response only when that
\* response was a 429 and fewer than five attempts were made.
RetryShape ==
  /\ sent = Len(statuses)
  /\ sent <= 5
  /\ \A i \in 1..(Len(statuses) - 1) : statuses[i] = 429
  /\ cpc = "backoff" => statuses[Len(statuses)] = 429 /\ sent < 5
  /\ (CallDone /\ statuses[Len(statuses)] = 429) => sent = 5

\* C8: a call that receives 429 is retried; at most 5 requests are made for
\* one call; a response other than 429 at attempt k ends the call after k
\* requests; when all 5 attempts are answered 429 the call fails with the
\* rate-limit error kind (BlingRateLimitError).
C8_RetryFiveThenRateLimitError ==
  /\ RetryShape
  /\ (CallDone /\ statuses = <<429, 429, 429, 429, 429>>) =>
       callResult.kind = "raise" /\ callResult.type = "BlingRateLimitError"

\* C9: only a 429 is retried: a 401 ends the call with the invalid-token
\* RuntimeError and any other non-2xx status with an HTTPStatusError that
\* carries the status, and no request is sent after that response; answered
\* first, they end the call after exactly one request.
C9_OnlyThrottlingRetried ==
  CallDone =>
    LET n == Len(statuses)
        st == statuses[n] IN
      /\ sent = n
      /\ \A i \in 1..(n - 1) : statuses[i] = 429
      /\ statuses[1] # 429 => sent = 1
      /\ st = 401 => callResult = Raise("RuntimeError", "token_invalid")
      /\ (st \notin {0, 401, 429} /\ st \div 100 # 2) =>
           callResult = Raise("HTTPStatusError", ToString(st))

\* A call answered 401 has failed after one request.
C9_Witness ==
  /\ CallDone
  /\ statuses = <<401>>
  /\ sent = 1
  /\ callResult.type = "RuntimeError"

Bags(nfe_id) ==
  [done |-> TRUE, itens |-> ItemBag(VisItens, nfe_id),
   pagamentos |-> PagBag(VisPagamentos, nfe_id)]

\* C10: once an invoice has been extracted, extracting it again with the same
\* upstream data leaves its line items (product code, quantity, totals,
\* discount) and its payments (method, value) exactly as they were after the
\* first extraction: nothing grows, nothing is duplicated, nothing is left
\* over; an attempt that is skipped because it raises changes none of them.
C10_ExtractionIdempotent ==
  [][\A id \in InvoiceIds :
       (/\ lastOp' = id
        /\ extracted'[id] = extracted[id] + 1
        /\ after_first[id].done)
       => IF mgResult' = "ok" THEN Bags(id)' = after_first[id]
                              ELSE Bags(id)' = Bags(id)]_vars

\* An invoice with two line items and a payment is extracted a second time,
\* successfully, after its first extraction was committed.
C10_Witness ==
  /\ lastOp = 1
  /\ extracted[1] = 2
  /\ mgResult = "ok"
  /\ ~tx_failed
  /\ after_first[1].done
  /\ Len(upstream[1].itens) = 2
  /\ Len(upstream[1].parcelas) >= 1
  /\ Cardinality({r \in committed.itens : r.nfe_id = 1}) = 2
  /\ Bags(1) = after_first[1]

\* A detail payload that names one product code more than once.
HasRepeat(dados) ==
  \E i, j \in 1..Len(dados.itens) :
    i < j /\ dados.itens[i].codigo # Null /\ dados.itens[i].codigo = dados.itens[j].codigo

RECURSIVE SumOver(_, _, _)
SumOver(itens, codigo, f) ==
  IF itens = <<>> THEN 0
  ELSE (IF itens[1].codigo = codigo THEN itens[1][f] ELSE 0)
         + SumOver(Tail(itens), codigo, f)

\* Line items are unique per (invoice id, product code).
ItemKeysUnique ==
  \A r1, r2 \in VisItens :
    (r1.nfe_id = r2.nfe_id /\ r1.codigo_produto = r2.codigo_produto
       /\ r1.codigo_produto # Null) => r1 = r2

\* C11: when a detail response names one product code more than once, the
\* extraction succeeds and the store holds exactly one line item for that
\* (invoice id, product code), whose quantity and total value are the sums
\* over the occurrences (the discount is 0 in every occurrence); line items
\* stay unique per (invoice id, product code).
C11_RepeatedCodeSummed ==
  [][\A id \in InvoiceIds :
       (/\ lastOp' = id
        /\ extracted'[id] = extracted[id] + 1
        /\ ~tx_failed
        /\ HasRepeat(upstream[id])
        /\ parcelas_ok(upstream[id]))
       => /\ mgResult' = "ok"
          /\ ItemKeysUnique'
          /\ \A c \in Codes \ {Null} :
               (\E i \in 1..Len(upstream[id].itens) : upstream[id].itens[i].codigo = c)
               => \E r \in VisItens' :
                    /\ r.nfe_id = id /\ r.codigo_produto = c
                    /\ r.quantidade = SumOver(upstream[id].itens, c, "quantidade")
                    /\ r.valor_total = SumOver(upstream[id].itens, c, "valorTotal")
                    /\ r.valor_desconto = 0]_vars

(***************************************************************************)
(* Properties of the calendar-month splitting, checked under SpecPeriodos. *)
(***************************************************************************)

\* The calendar: days of month m of year y.
MonthLength(y, m) ==
  IF m = 2 THEN (IF (y % 4 = 0 /\ y % 100 # 0) \/ y % 400 = 0 THEN 29 ELSE 28)
  ELSE IF m \in {4, 6, 9, 11} THEN 30 ELSE 31

\* The day after the ISO date s, by the calendar.
NextDay(s) ==
  IF s[3] < MonthLength(s[1], s[2]) THEN <<s[1], s[2], s[3] + 1>>
  ELSE IF s[2] < 12 THEN <<s[1], s[2] + 1, 1>>
  ELSE <<s[1] + 1, 1, 1>>

\* s1 <= s2 for ISO dates
IsoLe(s1, s2) ==
  \/ s1[1] < s2[1]
  \/ s1[1] = s2[1] /\ s1[2] < s2[2]
  \/ s1[1] = s2[1] /\ s1[2] = s2[2] /\ s1[3] <= s2[3]

\* C13: for every start date <= end date the sub-periods come in increasing
\* order, the first begins at the start date, the last ends at the end date,
\* each next one begins the day after the previous one ends, each lies inside
\* one calendar month, every one but the last ends on the last day of its
\* month, and 2023-12-15 to 2024-01-10 gives [2023-12-15, 2023-12-31] and
\* [2024-01-01, 2024-01-10].
C13_MonthlySplit ==
  (gpDone /\ IsoLe(data_inicio, data_fim)) =>
    LET n == Len(periodos) IN
      /\ n >= 1
      /\ periodos[1][1] = data_inicio
      /\ periodos[n][2] = data_fim
      /\ \A k \in 1..n :
           /\ IsoLe(periodos[k][1], periodos[k][2])
           /\ periodos[k][1][1] = periodos[k][2][1]
           /\ periodos[k][1][2] = periodos[k][2][2]
      /\ \A k \in 1..(n - 1) :
           /\ periodos[k + 1][1] = NextDay(periodos[k][2])
           /\ periodos[k][2][3] = MonthLength(periodos[k][2][1], periodos[k][2][2])
      /\ (data_inicio = <<2023, 12, 15>> /\ data_fim = <<2024, 1, 10>>)
           => periodos = << << <<2023, 12, 15>>, <<2023, 12, 31>> >>,
                            << <<2024, 1, 1>>, <<2024, 1, 10>> >> >>

\* 2023-12-15 to 2024-01-10 has been split, in two sub-periods.
C13_Witness ==
  /\ gpDone
  /\ data_inicio = <<2023, 12, 15>>
  /\ data_fim = <<2024, 1, 10>>
  /\ Len(periodos) = 2

\* A range over the leap-year February has been split.
LeapFebruarySplit ==
  /\ gpDone
  /\ \E k \in 1..Len(periodos) : periodos[k][2] = <<2024, 2, 29>>
  /\ Len(periodos) = 3

(***************************************************************************)
(* Properties of the counterparty/product pass, checked under              *)
(* SpecEntidades.                                                          *)
(***************************************************************************)

\* C12: the pass never asks the API for a counterparty id or a product code
\* that the local store held when the pass started, and asks for each new id
\* or code at most once, however many invoices refer to it.
C12_NoRefetch ==
  /\ \A k \in 1..Len(fetched) :
       /\ fetched[k][1] = "contato" => fetched[k][2] \notin atStart.contatos
       /\ fetched[k][1] = "produto" => fetched[k][2] \notin atStart.produtos
  /\ \A j, k \in 1..Len(fetched) : j < k => fetched[j] # fetched[k]

\* Two invoices name the same new counterparty and the same new product code
\* (once as text, once as a number), a third reference is already stored: the
\* pass is over with one lookup of each new one.
C12_Witness ==
  /\ enPc = "done"
  /\ Len(nfes) = 2
  /\ to_int(nfes[1].contato) = 2 /\ to_int(nfes[2].contato) = 2
  /\ nfes[1].itens = <<Ref("str", "7")>>
  /\ nfes[2].itens = <<Ref("str", "A"), Ref("int", "7")>>
  /\ atStart.produtos = {"A"}
  /\ fetched = << <<"contato", 2>>, <<"produto", "7">> >>

(***************************************************************************)
(* Properties of one invocation of the pipeline, checked under SpecRun.    *)
(***************************************************************************)

\* The run record of the invocation.
OwnRecord == etl_controle[rn_id]

\* C14: when a run has aborted with a run-level error after one or more
\* checkpoints, every invoice committed at a checkpoint is still in the store
\* and is what a query sees, only the segment written since the last commit is
\* gone, and the run record has status error.
C14_CheckpointsSurviveAbort ==
  (rnPc = "done" /\ abortou /\ checkpointed # {}) =>
     /\ checkpointed \subseteq store_committed.nfes
     /\ checkpointed \subseteq Visible.nfes
     /\ store = store_committed
     /\ OwnRecord.status = "error"

\* 51 invoices were stored, the checkpoint committed the first 50, the final
\* commit failed: the run has aborted and the 50 are what is stored.
C14_Witness ==
  /\ rnPc = "done" /\ abortou
  /\ stats_nfes = 51
  /\ Cardinality(checkpointed) = CHECKPOINT_INTERVAL
  /\ Visible.nfes = checkpointed
  /\ OwnRecord.status = "error"

\* C17: a run-level error at any step of a run (token refresh, upstream
\* listing, a store write or a commit) aborts the whole run: no further entity
\* is processed, uncommitted work is rolled back, the run record is marked
\* error with the type of that error, and never success.
C17_RunLevelErrorAborts ==
  (rnPc = "done" /\ falha # NoFalha) =>
     /\ depois = 0
     /\ store = store_committed
     /\ OwnRecord.status = "error"
     /\ OwnRecord.erro = falha.tipo

\* C18: an invoice whose processing fails (detail request error, malformed
\* payload) is skipped and not counted, every other summary of the listing is
\* still processed, and the run is not aborted by it.
C18_InvoiceFailureSkipped ==
  /\ ultimo.kind \in {"sem_detalhe", "malformada", "rejeitada"} =>
       ~ultimo.saved /\ ~ultimo.counted
  /\ ultimo.kind = "boa" => ultimo.saved /\ ultimo.counted
  /\ abortou => falha.etapa # "nfes"

(***************************************************************************)
(* Properties of the window of run(), checked under SpecWindow.            *)
(***************************************************************************)

\* The records that existed when the call began.
Earlier == SubSeq(etl_controle, 1, rn_id - 1)

\* The successful ones among them.
EarlierSuccess == {k \in 1..Len(Earlier) : Earlier[k].status = "success"}

LatestOf(S) == CHOOSE k \in S : \A j \in S : j <= k

\* C16: when run() is called without a start date, the window starts at the
\* reference date of the last successful run if there is one, and at today
\* minus the lookback otherwise, whatever records with status error or running
\* exist; without an end date the window ends today.
C16_WindowDefaults ==
  (rnPc = "refresh" /\ args.modo = "run") =>
     /\ args.data_inicio = <<>> =>
          toordinal(fromisoformat(janela.data_inicio)) =
            IF EarlierSuccess # {}
              THEN Earlier[LatestOf(EarlierSuccess)].data_referencia
              ELSE today - EXTRACTION_DAYS_BACK
     /\ args.data_inicio # <<>> => janela.data_inicio = args.data_inicio
     /\ args.data_fim = <<>> => toordinal(fromisoformat(janela.data_fim)) = today
     /\ args.data_fim # <<>> => janela.data_fim = args.data_fim

\* A successful run of 2024-02-28 was followed by a failed one of 2024-02-29;
\* run() without dates on 2024-03-01 takes 2024-02-28 to 2024-03-01.
C16_Witness ==
  /\ rnPc = "refresh"
  /\ args.data_inicio = <<>> /\ args.data_fim = <<>>
  /\ Len(Earlier) = 2
  /\ Earlier[1].status = "success" /\ Earlier[1].data_referencia = today - 2
  /\ Earlier[2].status = "error" /\ Earlier[2].data_referencia = today - 1
  /\ janela = [data_inicio |-> <<2024, 2, 28>>, data_fim |-> <<2024, 3, 1>>]

\* No run has succeeded yet, one has failed today: the lookback is used.
NoSuccessYet ==
  /\ rnPc = "refresh"
  /\ args.data_inicio = <<>>
  /\ Len(Earlier) = 1 /\ Earlier[1].status = "error"
  /\ Earlier[1].data_referencia = today
  /\ janela.data_inicio = <<2024, 2, 29>>

(***************************************************************************)
(* Properties of the run records and of the failures of the credential,    *)
(* checked under Spec.                                                     *)
(***************************************************************************)

Terminal == {"success", "error"}

\* C15: a run record is created with status running; a step changes the
\* status of a record only from running, and only to success or error; a
\* record that is success or error keeps its status whatever the same or
\* another run does later; a run() that returns leaves its own record in
\* success or error.
C15_StatusLifecycle ==
  [][/\ Len(etl_controle') >= Len(etl_controle)
     /\ \A k \in 1..Len(etl_controle') :
          IF k > Len(etl_controle)
            THEN etl_controle'[k].status = "running"
            ELSE /\ etl_controle[k].status \in Terminal =>
                      etl_controle'[k].status = etl_controle[k].status
                 /\ etl_controle'[k].status \in Terminal \cup {"running"}
     /\ \A p \in Procs :
          (op[p] = "run" /\ op'[p] = "none" /\ lastResult'.kind = "return") =>
             etl_controle'[run_id[p]].status \in Terminal]_vars

\* A run that succeeded was followed by a run that failed: each record keeps
\* the status its own run gave it.
C15_Witness ==
  /\ Len(etl_controle) = 2
  /\ etl_controle[1].status = "success"
  /\ etl_controle[2].status = "error"
  /\ \A p \in Procs : pc[p] = "idle"
  /\ lastResult.kind = "return" /\ lastResult.msg = "error"

NoCredentialError == Raise("RuntimeError", "no_token")

\* C19: with no credential stored, get_valid_access_token and
\* refresh_access_token raise the no-credential error without a request to the
\* token endpoint and without storing a credential, and a run started in that
\* state ends with its record in status error.
C19_NoCredentialFatal ==
  [][\A p \in Procs :
       /\ (pc[p] \in {"rf_read", "gv_read"} /\ oauth_tokens = {}
             /\ pc'[p] # pc[p]) =>
            /\ pc'[p] # "rf_post"
            /\ rfOutcome' = "none" /\ ~need'.refreshed
            /\ issued' = issued /\ srvValid' = srvValid
            /\ oauth_tokens' = {}
            /\ IF op[p] = "run"
                 THEN pc'[p] = "run_except" /\ result'[p] = NoCredentialError
                 ELSE pc'[p] = "idle" /\ lastResult' = NoCredentialError
       /\ (pc[p] = "run_except" /\ result[p] = NoCredentialError
             /\ pc'[p] # pc[p]) =>
            /\ etl_controle'[run_id[p]].status = "error"
            /\ etl_controle'[run_id[p]].erro = "RuntimeError"
            /\ oauth_tokens' = {}]_vars

\* A run started with no credential stored has ended: its record says error,
\* RuntimeError, no pair was ever issued and none is stored.
C19_Witness ==
  /\ oauth_tokens = {} /\ issued = 0
  /\ Len(etl_controle) = 1
  /\ etl_controle[1].status = "error" /\ etl_controle[1].erro = "RuntimeError"
  /\ rfResult = NoCredentialError
  /\ lastResult.kind = "return" /\ lastResult.msg = "error"

\* get_valid_access_token has raised the no-credential error.
NoCredentialGetValid ==
  /\ oauth_tokens = {} /\ issued = 0
  /\ lastResult = NoCredentialError
  /\ need = NoNeed /\ rfResult = NoResult

\* C20: a refresh answered 400 invalid_grant raises an error of a type that no
\* other HTTP failure of the token endpoint produces; in both cases the
\* request is not repeated and the stored credential is left as it was.
C20_InvalidGrantDistinct ==
  [][\A p \in Procs :
       (pc[p] = "rf_post" /\ pc'[p] # "rf_post"
          /\ rfOutcome' \in {"invalid_grant", "http_error"}) =>
         /\ rfResult'.kind = "raise"
         /\ rfOutcome' = "invalid_grant" =>
              rfResult' = Raise("RuntimeError", "reauth_required")
         /\ rfOutcome' = "http_error" => rfResult'.type # "RuntimeError"
         /\ pc'[p] \in {"idle", "run_except"}
         /\ oauth_tokens' = oauth_tokens
         /\ issued' = issued /\ srvValid' = srvValid]_vars

\* A refresh was answered invalid_grant: the stored pair is still the one the
\* server no longer accepts.
C20_Witness ==
  /\ rfOutcome = "invalid_grant"
  /\ rfResult = Raise("RuntimeError", "reauth_required")
  /\ oauth_tokens # {}
  /\ \A t \in oauth_tokens : t.refresh_token \notin srvValid
  /\ \A p \in Procs : pc[p] = "idle"

\* A refresh was answered by another HTTP failure.
OtherHttpFailure ==
  /\ rfOutcome = "http_error"
  /\ rfResult.type \in {"HTTPStatusError", "JSONDecodeError"}
  /\ oauth_tokens # {}
  /\ \A p \in Procs : pc[p] = "idle"

(***************************************************************************)
(* Properties of the waits between the attempts of a call, checked under   *)
(* SpecClient.  Times are milliseconds.                                    *)
(***************************************************************************)

\* The waits of the call all lie between the floor and the cap.
WaitsWithinBounds ==
  \A k \in 1..Len(lastWait) : WaitMin <= lastWait[k] /\ lastWait[k] <= WaitMax

\* C29, as stated: every wait between the attempts of a throttled call is at
\* least 2 s and at most 30 s, and each wait after a further consecutive 429
\* is double the previous one until the cap is reached.
C29_WaitsDouble ==
  /\ WaitsWithinBounds
  /\ \A k \in 2..Len(lastWait) :
       lastWait[k] = Min2(2 * lastWait[k - 1], WaitMax)

\* C29, amended: every wait is at least 2 s and at most 30 s; the wait after
\* the k-th consecutive 429 is 2^(k-1) s raised to the floor of 2 s and cut
\* at the cap of 30 s, so the first two waits are both 2 s, no wait is shorter
\* than the one before, and from the third on each wait is double the
\* previous one: 2, 2, 4, 8 s for the five attempts of a call.
C29_WaitsFloorThenDouble ==
  /\ WaitsWithinBounds
  /\ Len(lastWait) <= StopAfterAttempt - 1
  /\ \A k \in 1..Len(lastWait) :
       /\ k = 1 => lastWait[k] = WaitMin
       /\ k = 2 => lastWait[k] = lastWait[k - 1]
       /\ k >= 3 => lastWait[k] = 2 * lastWait[k - 1]
       /\ lastWait[k] < WaitMax

\* A call answered 429 five times has waited 2, 2, 4 and 8 s.
C29_Witness ==
  /\ CallDone
  /\ statuses = <<429, 429, 429, 429, 429>>
  /\ lastWait = <<2000, 2000, 4000, 8000>>

(***************************************************************************)
(* Properties of the totals of the invoice header, checked under           *)
(* SpecMerge.                                                              *)
(***************************************************************************)

\* The sum of the line-item totals of a payload, an amount that is not a
\* number counting as 0.
GoodsTotal(dados) ==
  LET n == Len(dados.itens)
      amount(i) == IF dados.itens[i].valorTotal = NoneAmount
                     THEN 0 ELSE dados.itens[i].valorTotal
      sum[k \in 0..n] == IF k = 0 THEN 0 ELSE sum[k - 1] + amount(k) IN
    sum[n]

NetTotal(dados) == IF dados.valorNota = NoneAmount THEN 0 ELSE dados.valorNota

\* C28: for every stored invoice header the goods total is the sum of the
\* line-item totals of the detail payload it was extracted from, and the
\* discount is max(0, goods total - stated net total): never negative, and 0
\* whenever the net total is at least the goods total.
C28_HeaderTotals ==
  \A h \in VisCabecalho :
    LET goods == GoodsTotal(upstream[h.id])
        net == NetTotal(upstream[h.id]) IN
      /\ h.total_produtos = goods
      /\ h.total_nota = net
      /\ h.total_descontos = Max2(0, goods - net)
      /\ h.total_descontos >= 0
      /\ net >= goods => h.total_descontos = 0

\* A header is stored of an invoice without items whose net total is 10: its
\* goods total is below the net total and its discount is 0.
C28_Witness ==
  \E h \in VisCabecalho :
    /\ h.id = 1
    /\ upstream[1].itens = <<>>
    /\ h.total_produtos = 0 /\ h.total_nota = 10 /\ h.total_descontos = 0

\* A header is stored whose goods total equals the net total.
GoodsEqualNet ==
  \E h \in VisCabecalho :
    /\ Len(upstream[h.id].itens) = 1
    /\ h.total_produtos = 10 /\ h.total_nota = 10 /\ h.total_descontos = 0

\* A header is stored whose goods total of 30 exceeds the net total of 10.
DiscountTaken ==
  \E h \in VisCabecalho :
    h.total_produtos = 30 /\ h.total_nota = 10 /\ h.total_descontos = 20

\* A header is stored of a payload without a net total.
NoNetTotal ==
  \E h \in VisCabecalho :
    /\ upstream[h.id].valorNota = NoneAmount
    /\ h.total_nota = 0 /\ h.total_descontos = h.total_produtos
    /\ h.total_produtos > 0

\* The ids and codes the passes asked the API for.
Tentados(kind) == {fetched[k][2] : k \in {j \in 1..Len(fetched) : fetched[j][1] = kind}}

\* The counterparties that were stored before the pass are as they were.
ContatosUntouched ==
  enPc # "contatos" =>
    /\ atStart.linhas_contatos \subseteq contatos
    /\ \A r \in contatos \ atStart.linhas_contatos : r.id \notin atStart.contatos

\* C26: the counterparty and product passes leave every counterparty and
\* every product that was in the store before the pass as it was: rows are
\* inserted only for ids and codes absent at the start of the pass, and no
\* row that existed is overwritten.
C26_ExistingRowsUntouched ==
  /\ ContatosUntouched
  /\ enPc \in {"produtos_loop", "done"} =>
       /\ atStart.linhas_produtos \subseteq produtos
       /\ \A r \in produtos \ atStart.linhas_produtos :
            r.codigo \notin atStart.produtos

\* C27: a counterparty whose fetch fails, a product whose lookup fails or
\* matches nothing, is skipped: it is not stored and not counted as new, the
\* pass goes on to its end, and every other new id and code is still asked
\* for.
C27_EntityFailureSkipped ==
  enPc = "done" =>
    /\ Tentados("contato") = contato_ids_nfe(nfes) \ atStart.contatos
    /\ Tentados("produto") = codigos_nfe(nfes) \ atStart.produtos
    /\ stats.contatos = Cardinality(Tentados("contato") \ falhos.contatos)
    /\ stats.produtos = Cardinality(Tentados("produto") \ falhos.produtos)
    /\ \A r \in contatos : r.id \notin falhos.contatos
    /\ \A r \in produtos : r.codigo \notin falhos.produtos
    /\ \A id \in Tentados("contato") \ falhos.contatos :
         \E r \in contatos : r.id = id /\ r.dados = "agora"

\* The fetch of the first new counterparty failed and the second was still
\* fetched and stored; the lookup of the one new product code gave nothing:
\* the pass is over with one counterparty counted and no product.
C27_Witness ==
  /\ enPc = "done"
  /\ Len(fetched) = 3
  /\ fetched[1][1] = "contato" /\ fetched[1][2] \in falhos.contatos
  /\ fetched[2][1] = "contato" /\ fetched[2][2] \notin falhos.contatos
  /\ fetched[3][1] = "produto" /\ falhos.produtos = {fetched[3][2]}
  /\ stats.contatos = 1 /\ stats.produtos = 0

\* The product that was stored under id 1 with code "A" now carries the code
\* and the data the API answered for another code.
C26_ProdutoOverwritten ==
  /\ enPc = "done"
  /\ atStart.linhas_produtos = {[id |-> 1, codigo |-> "A", dados |-> "antes"]}
  /\ produtos = {[id |-> 1, codigo |-> "7", dados |-> "agora"]}

\* A counterparty stored before the pass is referenced again and stays as it
\* was while a new one is stored beside it.
C26_ContatoKept ==
  /\ enPc = "done"
  /\ contatos = {[id |-> 1, dados |-> "antes"], [id |-> 2, dados |-> "agora"]}
  /\ 1 \in contato_ids_nfe(nfes)

\* The run record of the invocation, once it is stored.
Registro == etl_controle[rn_id]

\* The steps that call the authorization server or the API.
NetworkSteps == {"refresh", "nfes", "contatos", "produtos"}

\* C21: in run() and in run_full() the run record is stored with status
\* running before the first network call of the invocation: no token exchange
\* and no API request begins before create_etl_run has committed the record,
\* and while the calls are made the record is there, running, with the date
\* of the day.
C21_RecordBeforeNetwork ==
  /\ \A k \in 1..Len(passos) :
       passos[k].passo \in NetworkSteps => k > 1 /\ passos[1].passo = "create"
  /\ rnPc \in {"refresh", "listar", "nfes", "contatos", "produtos"} =>
       /\ rn_id \in 1..Len(etl_controle)
       /\ Registro.status = "running"
       /\ Registro.data_referencia = today

\* The listing of the first period is being asked for: the record was stored
\* first, then the token exchange was made, and the record is running.
C21_Witness ==
  /\ Len(passos) = 3
  /\ passos[1].passo = "create" /\ passos[2].passo = "refresh"
  /\ passos[3].passo = "nfes"
  /\ rn_id = 1 /\ Len(etl_controle) = 1 /\ Registro.status = "running"

\* The steps of an invocation over n periods that meets no error, as pairs
\* of name and period.
PassosDe(modo, n) ==
  LET per == IF modo = "run" THEN 1 ELSE 2
      m == per * n IN
    [j \in 1..(m + 6) |->
       IF j = 1 THEN <<"create", 0>>
       ELSE IF j = 2 THEN <<"refresh", 0>>
       ELSE IF j <= m + 2
         THEN IF modo = "run" THEN <<"nfes", j - 2>>
              ELSE IF (j - 2) % 2 = 1 THEN <<"nfes", (j - 1) \div 2>>
              ELSE <<"commit", (j - 2) \div 2>>
       ELSE IF j = m + 3 THEN <<"contatos", 0>>
       ELSE IF j = m + 4 THEN <<"produtos", 0>>
       ELSE IF j = m + 5 THEN <<"commit", 0>>
       ELSE <<"success", 0>>]

\* The steps taken are the first steps of PassosDe, ended by the except
\* clause when one of them raised.
StepsInOrder ==
  LET esperado == PassosDe(args.modo, Len(run_periodos)) IN
    \A k \in 1..Len(passos) :
      \/ k = Len(passos) /\ passos[k].passo = "error"
      \/ k <= Len(esperado) /\ <<passos[k].passo, passos[k].periodo>> = esperado[k]

\* The steps of a run() are in the order of the code, whatever its end.
RunStepsInOrder == args.modo = "run" => StepsInOrder

\* C22: in every run() that ends in success the steps happened in this
\* order, each once: token refresh, invoice extraction, counterparty
\* extraction, product extraction, final commit, marking the run success;
\* and the run is marked success only after the final commit succeeded, that
\* is with the invoices it extracted committed in the store.
C22_SuccessAfterCommit ==
  (rnPc = "done" /\ args.modo = "run" /\ Registro.status = "success") =>
    /\ Len(passos) = 7 /\ StepsInOrder
    /\ todas_nfes \subseteq store_committed.nfes

\* A run() marked success whose final commit committed nothing: a write of
\* the product pass was rejected and caught, and the invoice it had saved is
\* not in the store.
C22_SuccessNothingCommitted ==
  /\ rnPc = "done" /\ args.modo = "run" /\ Registro.status = "success"
  /\ falha = Falha("DBAPIError", "produtos")
  /\ todas_nfes # {} /\ store_committed.nfes = {}
  /\ Registro.nfes_processadas = Cardinality(todas_nfes)

\* (y, m, d) before (y, m, d)
DateBefore(a, b) ==
  \/ a[1] < b[1]
  \/ a[1] = b[1] /\ a[2] < b[2]
  \/ a[1] = b[1] /\ a[2] = b[2] /\ a[3] < b[3]

\* C23: in run_full() the periods are processed one after another in
\* calendar order, a commit is issued after the invoices of each period and
\* before the next period begins, and the counterparty and product passes
\* run once each, after the commit of the last period, over the union of the
\* invoices collected in all periods.
C23_PeriodsThenPasses ==
  args.modo = "run_full" =>
    /\ StepsInOrder
    /\ \A k \in 1..(Len(run_periodos) - 1) :
         DateBefore(run_periodos[k][2], run_periodos[k + 1][1])
    /\ \A k \in 1..Len(passos) :
         passos[k].passo \in {"contatos", "produtos"} =>
           /\ passos[k].nfes = todas_nfes
           /\ Cardinality(passos[k].nfes) = stats_nfes
           /\ pidx = Len(run_periodos) + 1

\* A run_full() over two periods of two and one invoices ended in success:
\* listing and commit of the first period, of the second, then the passes
\* over the three invoices, the final commit, the mark.
C23_Witness ==
  /\ rnPc = "done" /\ args.modo = "run_full" /\ Registro.status = "success"
  /\ tamanhos = <<2, 1>>
  /\ Len(passos) = 10
  /\ passos[7].passo = "contatos" /\ passos[7].nfes = {1, 2, 3}
  /\ passos[8].passo = "produtos" /\ passos[8].nfes = {1, 2, 3}

C25_ErrorCountCommitted ==
  (rnPc = "done" /\ Registro.status = "error") =>
    Registro.nfes_processadas <= Cardinality(store_committed.nfes)

\* A run() over a listing of two: the first invoice was saved and counted,
\* a write of the second was rejected, the run ended as error at the
\* counterparty pass; the rollback took the first invoice and the record
\* counts it.
C25_CountedButRolledBack ==
  /\ rnPc = "done" /\ args.modo = "run" /\ Registro.status = "error"
  /\ tamanhos = <<2>> /\ falha = Falha("DBAPIError", "nfes")
  /\ Registro.nfes_processadas = 1
  /\ store.nfes = {} /\ store_committed.nfes = {}

\* The run records that are success.
Succeeded == {k \in 1..Len(etl_controle) : etl_controle[k].status = "success"}

\* Both runs have left the pipeline.
BothFinished == \A p \in Procs : pc[p] = "idle"

\* C30: two runs execute at the same time and both start from the same
\* stored refresh token: at most one of their token exchanges succeeds, the
\* other run ends with status error, and when no exchanged pair was lost by a
\* crash or a failed save the pair in the store once both runs have finished
\* is the one the authorization server accepts.
C30_OneExchangeWins ==
  /\ issued <= 2
  /\ Cardinality(Succeeded) <= 1
  /\ BothFinished =>
       /\ \E k \in 1..2 : etl_controle[k].status = "error"
       /\ \A k \in 1..2 : etl_controle[k].status \in {"error", "success"} \/
                          (needsReauth /\ etl_controle[k].status = "running")
       /\ ~needsReauth =>
            /\ oauth_tokens # {}
            /\ \A t \in oauth_tokens : t.refresh_token \in srvValid

\* The first run exchanged pair 1 for pair 2, saved it and ended in success;
\* the second was refused with invalid_grant and ended in error; pair 2 is
\* in the store and is the one the server accepts.
C30_Witness ==
  /\ BothFinished
  /\ etl_controle[1].status = "success"
  /\ etl_controle[2].status = "error" /\ etl_controle[2].erro = "RuntimeError"
  /\ srvValid = {2}
  /\ \A t \in oauth_tokens : t.refresh_token = 2

\* C31: an invoice that is skipped because its processing failed part-way
\* leaves no trace in the store: no header or item written for it before the
\* failure is committed by a later checkpoint, period commit or final
\* commit, and the committed invoices of a successful run are those its
\* invoice count counts.
C31_SkippedLeavesNoTrace ==
  /\ store_committed.parciais = {}
  /\ (rnPc = "done" /\ Registro.status = "success") =>
       /\ store_committed.nfes = todas_nfes
       /\ Cardinality(store_committed.nfes) = Registro.nfes_processadas

\* A run() over a listing of two invoices: _salvar_nfe raised on the first
\* after its header and items were written, the second was saved. The run is
\* success with one invoice counted, and the header and the items of the
\* skipped invoice are committed beside the counted one.
C31_PartialCommitted ==
  /\ rnPc = "done" /\ args.modo = "run" /\ Registro.status = "success"
  /\ tamanhos = <<2>>
  /\ Registro.nfes_processadas = 1
  /\ store_committed.parciais = {1} /\ store_committed.nfes = {2}

\* C32: the reference date recorded on a successful run is never later than
\* the end date of the window the run extracted, in run() and in run_full(),
\* with or without explicit dates.
C32_ReferenceWithinWindow ==
  (rnPc = "done" /\ Registro.status = "success") =>
    Registro.data_referencia <= toordinal(fromisoformat(janela.data_fim))

\* A run_full() over 2023-12-15 to 2024-01-10 made on 2024-03-01 ended in
\* success: its record carries 2024-03-01, the date of the day.
C32_ReferenceAfterWindow ==
  /\ rnPc = "done" /\ args.modo = "run_full" /\ Registro.status = "success"
  /\ janela.data_fim = <<2024, 1, 10>>
  /\ strftime(Registro.data_referencia) = <<2024, 3, 1>>

\* A run() without dates ended in success: its window ends on the date of
\* the day, which is the reference date of its record.
ReferenceIsWindowEnd ==
  /\ rnPc = "done" /\ args.modo = "run" /\ Registro.status = "success"
  /\ janela.data_fim = strftime(Registro.data_referencia)

\* The run record of the invocation is stored.
Started == rn_id \in 1..Len(etl_controle)

\* The run record of the invocation is success or error and the invocation
\* has returned.
Ended ==
  /\ Started
  /\ rnPc = "done"
  /\ etl_controle[rn_id].status \in {"success", "error"}

\* C33: every started run eventually reaches status success or error, when
\* every upstream call and every store operation returns, by a value or by
\* an exception, and every listing is finite: the invoice loop visits the
\* listing once, each step of the run is taken once, and whichever step
\* raises leads to the except clause, which ends the record.
C33_RunEnds == Started ~> Ended

\* A run() that went through a listing of 51 invoices, one of which failed,
\* has ended, as success or as error.
C33_Witness ==
  /\ Ended
  /\ args.modo = "run" /\ tamanhos = <<51>>
  /\ vistos = 51 /\ bad = 1
====
